---- MODULE Spec2Model ----
(***************************************************************************)
(* A model of one blockchain node (src/blockchain.py, src/node2/node.py):  *)
(* the chain engine (blocks, proof of work, difficulty retarget, UTXO      *)
(* set, mempool), the /block/receive and /transaction/new handlers, the    *)
(* consensus resolver (resolve_conflicts) and the peer synchronisation run *)
(* at registration (sync_with_node).                                       *)
(*                                                                         *)
(* Abstractions.                                                           *)
(*  - SHA-256 is a collision-free function: a hash is the tuple of the     *)
(*    hashed fields.  The number of leading '0' hex digits of a block hash *)
(*    is a fixed function of the hashed content (LeadingZeros).            *)
(*  - ECDSA: a signature made with the key of address a over data d is the *)
(*    pair <<a, d>>; it verifies against public key p iff p = a.           *)
(*  - len(json.dumps(x)) is a base length plus the length of the free-form *)
(*    extra payload the dict carries (field "extra").                      *)
(*  - time.time() is the variable now; it advances when a block is mined.  *)
(***************************************************************************)
EXTENDS Integers, Sequences, FiniteSets, TLC

\* ------------------------------------------------------------ constants
DIFFICULTY_ADJUSTMENT_INTERVAL == 5
TARGET_BLOCK_TIME == 10
COINBASE_REWARD == 50
MAX_BLOCK_SIZE == 1024 * 1024
MAX_TXS_PER_BLOCK == 1000
\* Mempool.max_size
max_size == 10000
max_retries == 3
broadcast_ttl == 10
max_broadcasts_per_minute == 10
\* Blockchain.difficulty as the class is loaded
InitialDifficulty == 2

\* ------------------------------------------------------------ bounds
\* Longest chain the node grows by mining or receiving blocks (SpecChain).
MaxChain == 4
\* Longest chain the node grows by mining or receiving blocks (Spec).
MaxNetChain == 2
\* Latest time at which a block is mined or received (Spec).
MaxTime == 3
\* Largest number of leading zeros a modelled hash can have.
MaxZeros == 3
\* Largest number of transactions waiting in the mempool.
MaxPool == 1
\* Longest chain the node grows by mining or receiving blocks (SpecPeer).
MaxPeerChain == 2
PoolRoom == 1
MaxPoolChain == 3
MaxRaceChain == 3
MaxClock == 33
MaxNetClock == 11
MaxTimers == 1
MaxUtxoChain == 5
MaxRetargetChain == 10
MaxStamp == 2
MaxTakePool == 4
MaxTake == 3
MaxGossipChain == 2
MaxLimitClock == 2
MaxCallers == 2
MaxMineChain == 3
MaxMineClock == 33
MaxStallChain == 4
MaxStallClock == 35
MaxMinePool == 2
MaxCoinPool == 2
MaxCoinChain == 2
MaxDiffChain == 5
MaxSwarmClock == 2

\* The peers a node knows.
Peers == {"p1", "p2"}

\* The node's own address: the global my_node_address, set at start-up.
my_node_address == "n0"

\* The addresses requests and files can name.
Addrs == Peers \cup {my_node_address}

\* addr.split(':')[0], the host of an address host:port. The peers p1 and p2
\* are two ports of one host, p3 is a port of another, and the node has a host
\* of its own; request.remote_addr is a host, and a host is its own host.
Host(addr) ==
    IF addr \in {"p1", "p2"} THEN "h1"
    ELSE IF addr = "p3" THEN "h2"
    ELSE IF addr = my_node_address THEN "h0"
    ELSE addr

\* The targets of broadcast_to_others and broadcast_block_to_others: the
\* healthy peers whose host is not the host of source_addr.
ForwardTargets(healthy, source_addr) == {p \in healthy : Host(p) # Host(source_addr)}

\* The targets of safe_broadcast_nodes_list: with a source_addr, the healthy
\* peers whose address is not source_addr; "" is source_addr=None.
NodesListTargets(healthy, source_addr) ==
    IF source_addr = "" THEN healthy ELSE {p \in healthy : p # source_addr}

\* One requests.post(http://<to><path>) per target.
Posts(targets, path) == {[to |-> p, path |-> path] : p \in targets}

\* time.time() counts from 1970 and the clock of the model from the start of
\* the node: the 0 the code writes for "never" lies far in the past.
LongAgo == 0 - 1000

\* network_manager.peer_status = {}: no peer has a record.
NoStatus == [p \in Addrs |-> [present |-> FALSE, retries |-> 0, last_check |-> LongAgo]]

\* network_manager.broadcast_stats as __init__ leaves it at time 0.
NoStats == [last_broadcast |-> LongAgo, broadcast_count |-> 0, last_reset |-> 0]

\* ------------------------------------------------------------ hashing
ZeroHash == <<"0">>
EmptyStr == <<>>

\* Transaction.compute_hash: SHA-256 of {sender, recipient, amount, nonce,
\* timestamp}.
TxHash(sender, recipient, amount, nonce, timestamp) ==
    <<"tx", sender, recipient, amount, nonce, timestamp>>

\* mine(): sha256("coinbase_<time>").
CoinbaseTxid(t) == <<"coinbase", "", "", 0, 0, t>>

\* f"{txid}_change"
ChangeKey(txid) == Append(txid, "_change")

\* Wallet.sign / Wallet.verify_static.
Sign(addr, data) == <<addr, data>>
VerifyStatic(data, signature, public_key) == signature = <<public_key, data>>

\* Block.compute_hash: SHA-256 of {index, timestamp, transactions,
\* previous_hash, nonce}; the stored hash is not part of it.
ComputeHash(b) == <<b.index, b.timestamp, b.transactions, b.previous_hash, b.nonce>>

\* Number of leading '0' characters of a hash string.
LeadingZeros(h) ==
    IF Len(h) = 5
    THEN (h[5] + h[2] + h[1] + Len(h[3])) % (MaxZeros + 1)
    ELSE IF h = ZeroHash THEN 1
    ELSE IF h = <<"0000">> THEN 4
    ELSE 0

\* hash.startswith('0' * difficulty)
StartsWithZeros(h, d) == LeadingZeros(h) >= d

\* Block(index, timestamp, transactions, previous_hash, nonce, hash_value)
Block(index, timestamp, transactions, previous_hash, nonce, hash_value) ==
    LET b == [index |-> index, timestamp |-> timestamp,
              transactions |-> transactions, previous_hash |-> previous_hash,
              nonce |-> nonce, hash |-> EmptyStr]
    IN [b EXCEPT !.hash = IF hash_value = EmptyStr THEN ComputeHash(b) ELSE hash_value]

\* len(json.dumps(tx_dict)): 300 characters for the required fields plus the
\* length of whatever else the dict carries.
JsonLen(tx) == 300 + tx.extra

\* The sum over a list, halved at each level: a block of a thousand
\* transactions is summed at depth ten.
RECURSIVE SumLen(_)
SumLen(txs) ==
    IF txs = <<>> THEN 0
    ELSE IF Len(txs) = 1 THEN JsonLen(txs[1])
    ELSE LET h == Len(txs) \div 2
         IN SumLen(SubSeq(txs, 1, h)) + SumLen(SubSeq(txs, h + 1, Len(txs)))

\* Block.get_size: len(json.dumps(to_dict())), 200 characters for the header
\* fields plus the transactions.
GetSize(b) == 200 + SumLen(b.transactions)

\* ------------------------------------------------------------ UTXO set
\* The dict utxos keeps insertion order: a sequence of entries with unique keys.
HasKey(utxos, key) == \E i \in 1..Len(utxos) : utxos[i].key = key

KeyIndex(utxos, key) == CHOOSE i \in 1..Len(utxos) : utxos[i].key = key

\* UTXOSet.add_utxo: the entry under the key is (over)written, unspent.
AddUtxo(utxos, key, address, amount) ==
    LET e == [key |-> key, address |-> address, amount |-> amount, spent |-> FALSE]
    IN IF HasKey(utxos, key)
       THEN [utxos EXCEPT ![KeyIndex(utxos, key)] = e]
       ELSE Append(utxos, e)

\* UTXOSet.spend_utxo
SpendUtxo(utxos, key) ==
    IF HasKey(utxos, key)
    THEN [utxos EXCEPT ![KeyIndex(utxos, key)].spent = TRUE]
    ELSE utxos

RECURSIVE SelectSeq2(_, _, _)
SelectSeq2(s, addr, i) ==
    IF i > Len(s) THEN <<>>
    ELSE IF s[i].address = addr /\ ~s[i].spent
         THEN <<s[i]>> \o SelectSeq2(s, addr, i + 1)
         ELSE SelectSeq2(s, addr, i + 1)

\* UTXOSet.get_utxos_for_address
GetUtxosForAddress(utxos, address) == SelectSeq2(utxos, address, 1)

RECURSIVE SumAmount(_)
SumAmount(s) == IF s = <<>> THEN 0 ELSE Head(s).amount + SumAmount(Tail(s))

\* UTXOSet.get_balance
GetBalance(utxos, address) == SumAmount(GetUtxosForAddress(utxos, address))

\* list.sort(key=amount): stable, ascending.
InsertByAmount(s, u) ==
    LET k == Cardinality({i \in 1..Len(s) : s[i].amount <= u.amount})
    IN SubSeq(s, 1, k) \o <<u>> \o SubSeq(s, k + 1, Len(s))

RECURSIVE SortByAmount(_)
SortByAmount(s) ==
    IF s = <<>> THEN <<>>
    ELSE InsertByAmount(SortByAmount(SubSeq(s, 1, Len(s) - 1)), s[Len(s)])

\* The greedy loop of update_utxo_set / select_utxos_for_payment: the number
\* of entries taken from the sorted list before the total reaches the amount.
RECURSIVE TakeCount(_, _, _, _)
TakeCount(sorted, amount, i, total) ==
    IF i > Len(sorted) \/ total >= amount THEN i - 1
    ELSE TakeCount(sorted, amount, i + 1, total + sorted[i].amount)

RECURSIVE SpendAll(_, _)
SpendAll(utxos, sel) ==
    IF sel = <<>> THEN utxos ELSE SpendAll(SpendUtxo(utxos, Head(sel).key), Tail(sel))

\* One iteration of the loop of update_utxo_set.
ApplyTx(utxos, tx) ==
    IF tx.sender = ""
    THEN IF tx.recipient # "" /\ tx.amount > 0
         THEN AddUtxo(utxos, tx.txid, tx.recipient, tx.amount)
         ELSE utxos
    ELSE LET sorted == SortByAmount(GetUtxosForAddress(utxos, tx.sender))
             n == TakeCount(sorted, tx.amount, 1, 0)
             selected == SubSeq(sorted, 1, n)
             total == SumAmount(selected)
             u1 == SpendAll(utxos, selected)
             u2 == AddUtxo(u1, tx.txid, tx.recipient, tx.amount)
             change == total - tx.amount
         IN IF total < tx.amount THEN utxos
            ELSE IF change > 0
                 THEN AddUtxo(u2, ChangeKey(tx.txid), tx.sender, change)
                 ELSE u2

\* The loop of update_utxo_set, in order; the list is halved at each level.
\* Len(first) >= 0 always holds: the test has the set the first half leaves
\* evaluated before the second half is entered.
RECURSIVE ApplyTxs(_, _)
ApplyTxs(utxos, txs) ==
    IF txs = <<>> THEN utxos
    ELSE IF Len(txs) = 1 THEN ApplyTx(utxos, txs[1])
    ELSE LET h == Len(txs) \div 2
             first == ApplyTxs(utxos, SubSeq(txs, 1, h))
         IN IF Len(first) >= 0 THEN ApplyTxs(first, SubSeq(txs, h + 1, Len(txs)))
            ELSE first

\* Blockchain.update_utxo_set
UpdateUtxoSet(utxos, block) == ApplyTxs(utxos, block.transactions)

RECURSIVE Replay(_, _)
Replay(utxos, c) ==
    IF c = <<>> THEN utxos ELSE Replay(UpdateUtxoSet(utxos, Head(c)), Tail(c))

\* Blockchain.rebuild_utxo_set
RebuildUtxoSet(c) == Replay(<<>>, c)

\* ------------------------------------------------------------ validation
\* Transaction.is_valid, on the object validate_transaction builds: the txid
\* and the signature are the ones the dict carries.
IsValid(tx) ==
    IF tx.sender = "" THEN TRUE
    ELSE IF ~(tx.sender # "" /\ tx.recipient # "" /\ tx.amount > 0) THEN FALSE
    ELSE IF tx.txid = EmptyStr \/ tx.signature = EmptyStr THEN FALSE
    ELSE VerifyStatic(tx.txid, tx.signature, tx.sender)

\* A faulty validate_transaction, for comparison: the sender's unspent total
\* is never compared with the amount.
ValidateTransactionNoBalance(tx, utxos) ==
    IF tx.sender = "" THEN [ok |-> TRUE, msg |-> "coinbase"]
    ELSE IF ~IsValid(tx) THEN [ok |-> FALSE, msg |-> "signature"]
    ELSE [ok |-> TRUE, msg |-> "valid"]

\* Blockchain.validate_transaction (dicts that carry every required field).
ValidateTransaction(tx, utxos) ==
    IF tx.sender = "" THEN [ok |-> TRUE, msg |-> "coinbase"]
    ELSE IF ~IsValid(tx) THEN [ok |-> FALSE, msg |-> "signature"]
    ELSE IF SumAmount(GetUtxosForAddress(utxos, tx.sender)) < tx.amount
         THEN [ok |-> FALSE, msg |-> "balance"]
         ELSE [ok |-> TRUE, msg |-> "valid"]

\* The loop of validate_block_transactions over transactions lo..hi, entered
\* with st = [ok, total_size, coinbase_count]; ok = FALSE is `return False`.
\* The range is halved at each level and run in order.
RECURSIVE ValidateFrom(_, _, _, _, _)
ValidateFrom(txs, utxos, lo, hi, st) ==
    IF ~st.ok \/ lo > hi THEN st
    ELSE IF lo = hi
    THEN LET size == st.total_size + JsonLen(txs[lo])
             cb == IF txs[lo].sender = "" THEN st.coinbase_count + 1
                   ELSE st.coinbase_count
             bad == [ok |-> FALSE, total_size |-> size, coinbase_count |-> cb]
         IN IF size > MAX_BLOCK_SIZE THEN bad
            ELSE IF cb > 1 THEN bad
            ELSE IF ~ValidateTransaction(txs[lo], utxos).ok THEN bad
            ELSE [ok |-> TRUE, total_size |-> size, coinbase_count |-> cb]
    ELSE LET mid == (lo + hi) \div 2
             first == ValidateFrom(txs, utxos, lo, mid, st)
         IN ValidateFrom(txs, utxos, mid + 1, hi, first)

\* Blockchain.validate_block_transactions: every transaction is checked
\* against the UTXO set as it is now.
ValidateBlockTransactions(txs, utxos) ==
    LET r == ValidateFrom(txs, utxos, 1, Len(txs),
                          [ok |-> TRUE, total_size |-> 0, coinbase_count |-> 0])
    IN r.ok /\ r.coinbase_count = 1

\* Blockchain.is_valid_proof
IsValidProof(block, block_hash, d) ==
    StartsWithZeros(block_hash, d) /\ block_hash = ComputeHash(block)

\* Blockchain.validate_chain: links, proof of work at the current difficulty,
\* hashes and transactions of every block but the first.
ValidateChain(c, utxos, d) ==
    /\ c # <<>>
    /\ c[1].index = 0
    /\ c[1].previous_hash = ZeroHash
    /\ \A i \in 2..Len(c) :
          /\ c[i].previous_hash = c[i - 1].hash
          /\ StartsWithZeros(c[i].hash, d)
          /\ c[i].hash = ComputeHash(c[i])
          /\ ValidateBlockTransactions(c[i].transactions, utxos)

\* adjust_difficulty without the floor: the decrease is not conditioned on
\* difficulty > 1.
AdjustDifficultyNoFloor(c, d) ==
    IF Len(c) % DIFFICULTY_ADJUSTMENT_INTERVAL # 0 \/ Len(c) < DIFFICULTY_ADJUSTMENT_INTERVAL
    THEN d
    ELSE LET actual_time == c[Len(c)].timestamp
                            - c[Len(c) - DIFFICULTY_ADJUSTMENT_INTERVAL + 1].timestamp
             expected_time == TARGET_BLOCK_TIME * DIFFICULTY_ADJUSTMENT_INTERVAL
         IN IF 2 * actual_time < expected_time THEN d + 1
            ELSE IF actual_time > expected_time * 2 THEN d - 1
            ELSE d

\* Blockchain.adjust_difficulty
AdjustDifficulty(c, d) ==
    IF Len(c) % DIFFICULTY_ADJUSTMENT_INTERVAL # 0 \/ Len(c) < DIFFICULTY_ADJUSTMENT_INTERVAL
    THEN d
    ELSE LET last_adjustment_block == c[Len(c) - DIFFICULTY_ADJUSTMENT_INTERVAL + 1]
             expected_time == TARGET_BLOCK_TIME * DIFFICULTY_ADJUSTMENT_INTERVAL
             actual_time == c[Len(c)].timestamp - last_adjustment_block.timestamp
         IN IF 2 * actual_time < expected_time THEN d + 1
            ELSE IF actual_time > expected_time * 2 /\ d > 1 THEN d - 1
            ELSE d

\* A faulty add_block, for comparison: it appends the block before it looks at
\* the block's transactions, so a block rejected for them stays in the chain.
AddBlockAppendFirst(c, utxos, d, block, proof) ==
    LET keep(msg) == [ok |-> FALSE, msg |-> msg, chain |-> c, utxos |-> utxos,
                      difficulty |-> d]
        nb == [block EXCEPT !.hash = proof]
        nc == Append(c, nb)
    IN IF c # <<>> /\ block.previous_hash # c[Len(c)].hash THEN keep("previous_hash")
       ELSE IF ~IsValidProof(block, proof, d) THEN keep("proof")
       ELSE IF GetSize(block) > MAX_BLOCK_SIZE THEN keep("size")
       ELSE IF ~ValidateBlockTransactions(block.transactions, utxos)
            THEN [keep("transactions") EXCEPT !.chain = nc]
       ELSE [ok |-> TRUE, msg |-> "added", chain |-> nc,
             utxos |-> UpdateUtxoSet(utxos, nb),
             difficulty |-> AdjustDifficulty(nc, d)]

\* Blockchain.add_block: the outcome and the chain, UTXO set and difficulty
\* it leaves.
AddBlockResult(c, utxos, d, block, proof) ==
    LET keep(msg) == [ok |-> FALSE, msg |-> msg, chain |-> c, utxos |-> utxos,
                      difficulty |-> d]
    IN IF c # <<>> /\ block.previous_hash # c[Len(c)].hash THEN keep("previous_hash")
       ELSE IF ~IsValidProof(block, proof, d) THEN keep("proof")
       ELSE IF GetSize(block) > MAX_BLOCK_SIZE THEN keep("size")
       ELSE IF ~ValidateBlockTransactions(block.transactions, utxos)
            THEN keep("transactions")
       ELSE LET nb == [block EXCEPT !.hash = proof]
                nc == Append(c, nb)
            IN [ok |-> TRUE, msg |-> "added", chain |-> nc,
                utxos |-> UpdateUtxoSet(utxos, nb),
                difficulty |-> AdjustDifficulty(nc, d)]

\* Blockchain.proof_of_work: the first nonce, counting from 0, whose hash has
\* the leading zeros the difficulty asks for (d <= MaxZeros).
ProofOfWork(block, d) ==
    LET good(n) == StartsWithZeros(ComputeHash([block EXCEPT !.nonce = n]), d)
        n0 == CHOOSE n \in 0..MaxZeros : good(n) /\ \A m \in 0..(n - 1) : ~good(m)
    IN [nonce |-> n0, hash |-> ComputeHash([block EXCEPT !.nonce = n0])]

\* ------------------------------------------------------------ mempool
\* The dict transactions keeps insertion order: a sequence, unique txids.
InPool(pool, txid) == \E i \in 1..Len(pool) : pool[i].txid = txid

\* Mempool.add_transaction without the test of max_size.
AddTransactionNoLimit(pool, tx) ==
    IF tx.txid = EmptyStr THEN [ok |-> FALSE, pool |-> pool]
    ELSE IF InPool(pool, tx.txid) THEN [ok |-> FALSE, pool |-> pool]
    ELSE [ok |-> TRUE, pool |-> Append(pool, tx)]

\* Mempool.add_transaction
AddTransaction(pool, tx) ==
    IF tx.txid = EmptyStr THEN [ok |-> FALSE, pool |-> pool]
    ELSE IF InPool(pool, tx.txid) THEN [ok |-> FALSE, pool |-> pool]
    ELSE IF Len(pool) >= max_size THEN [ok |-> FALSE, pool |-> pool]
    ELSE [ok |-> TRUE, pool |-> Append(pool, tx)]

\* sorted(..., key=timestamp): stable, ascending; the transactions of the
\* smallest timestamp in their order in s, then the rest.
RECURSIVE SortFrom(_, _)
SortFrom(s, stamps) ==
    IF stamps = {} THEN <<>>
    ELSE LET t == CHOOSE x \in stamps : \A y \in stamps : x <= y
         IN SelectSeq(s, LAMBDA tx : tx.timestamp = t) \o SortFrom(s, stamps \ {t})

SortByTimestamp(s) == SortFrom(s, {s[i].timestamp : i \in 1..Len(s)})

\* del self.transactions[txid] for every txid of txids.
Without(pool, txids) ==
    IF txids = {} THEN pool ELSE SelectSeq(pool, LAMBDA tx : tx.txid \notin txids)

\* get_transactions_for_block without the sort: the first max_count
\* transactions in the order of the dict.
GetTransactionsUnsorted(pool, max_count) ==
    LET taken == SubSeq(pool, 1, IF Len(pool) < max_count THEN Len(pool) ELSE max_count)
    IN [taken |-> taken,
        pool |-> Without(pool, {taken[i].txid : i \in 1..Len(taken)})]

\* Mempool.get_transactions_for_block: the transactions taken and the pool left.
GetTransactionsForBlock(pool, max_count) ==
    LET sorted == SortByTimestamp(pool)
        taken == SubSeq(sorted, 1, IF Len(sorted) < max_count THEN Len(sorted) ELSE max_count)
    IN [taken |-> taken,
        pool |-> Without(pool, {taken[i].txid : i \in 1..Len(taken)})]

\* The re-admission loops of mine(): add_transaction for every transaction
\* with a sender.
RECURSIVE ReAdmit(_, _)
ReAdmit(pool, txs) ==
    IF txs = <<>> THEN pool
    ELSE IF Len(txs) = 1
    THEN IF txs[1].sender # "" THEN AddTransaction(pool, txs[1]).pool ELSE pool
    ELSE LET h == Len(txs) \div 2
             first == ReAdmit(pool, SubSeq(txs, 1, h))
         IN IF Len(first) >= 0 THEN ReAdmit(first, SubSeq(txs, h + 1, Len(txs)))
            ELSE first

\* remove_confirmed_transactions that removes nothing.
KeepConfirmedTransactions(pool, block) == pool

\* Blockchain.remove_confirmed_transactions
RemoveConfirmedTransactions(pool, block) ==
    Without(pool, {block.transactions[i].txid :
                     i \in {j \in 1..Len(block.transactions) :
                              block.transactions[j].sender # ""}})

\* The coinbase dict mine() builds at time t.
CoinbaseTx(txid, miner_address, t) ==
    [txid |-> txid, sender |-> "", recipient |-> miner_address,
     amount |-> COINBASE_REWARD, nonce |-> 0, timestamp |-> t,
     signature |-> EmptyStr, extra |-> 0]

\* Blockchain.mine at time t: the outcome and the state it leaves.
MineResult(c, utxos, pool, d, miner_address, t) ==
    LET got == GetTransactionsForBlock(pool, MAX_TXS_PER_BLOCK)
        transactions == <<CoinbaseTx(CoinbaseTxid(t), miner_address, t)>> \o got.taken
        back == ReAdmit(got.pool, Tail(transactions))
        fail(res) == [result |-> res, chain |-> c, utxos |-> utxos, mempool |-> back,
                      difficulty |-> d]
    IN IF ~ValidateBlockTransactions(transactions, utxos) THEN fail("invalid_bundle")
       ELSE LET new_block == Block(IF c = <<>> THEN 0 ELSE c[Len(c)].index + 1, t,
                                   transactions,
                                   IF c = <<>> THEN ZeroHash ELSE c[Len(c)].hash,
                                   0, EmptyStr)
                pow == ProofOfWork(new_block, d)
                mined == [new_block EXCEPT !.nonce = pow.nonce]
                r == AddBlockResult(c, utxos, d, mined, pow.hash)
            IN IF ~r.ok THEN fail("rejected")
               ELSE [result |-> "mined", chain |-> r.chain, utxos |-> r.utxos,
                     mempool |-> RemoveConfirmedTransactions(got.pool, mined),
                     difficulty |-> r.difficulty]

\* ------------------------------------------------------------ inputs
\* A transaction made and signed by the wallet of its sender
\* (Transaction.sign_transaction, to_dict).
SignedTx(sender, recipient, amount, nonce, timestamp) ==
    LET txid == TxHash(sender, recipient, amount, nonce, timestamp)
    IN [txid |-> txid, sender |-> sender, recipient |-> recipient, amount |-> amount,
        nonce |-> nonce, timestamp |-> timestamp, signature |-> Sign(sender, txid),
        extra |-> 0]

T1 == SignedTx("A", "B", 30, 0, 2)
T2 == SignedTx("B", "A", 30, 0, 1)
\* T1 with its amount changed after signing: the txid and signature are T1's.
T1Tampered == [T1 EXCEPT !.amount = 50]
\* A transfer from A signed with B's key.
TForged == [SignedTx("A", "B", 30, 1, 3) EXCEPT !.signature = Sign("B", @)]
TZero == SignedTx("A", "B", 0, 2, 3)
\* A signed transfer whose dict is padded: with a coinbase beside it the
\* transactions serialise to exactly MAX_BLOCK_SIZE characters.
TBig == [SignedTx("A", "B", 30, 3, 4) EXCEPT !.extra = MAX_BLOCK_SIZE - 600]

\* What clients post to /transaction/new.
TxInputs == {T1, T2, T1Tampered, TForged, TZero, TBig}

\* The id of a coinbase a peer made at another instant of second t.
PeerCoinbaseTxid(t) == <<"coinbase", "", "", 0, 1, t>>

\* A block a miner produces on (index, previous_hash) at difficulty d.
MinedBlock(index, t, transactions, previous_hash, d) ==
    LET b == Block(index, t, transactions, previous_hash, 0, EmptyStr)
        pow == ProofOfWork(b, d)
    IN [b EXCEPT !.nonce = pow.nonce, !.hash = pow.hash]

\* The same block with a nonce whose hash lacks the leading zeros.
UnminedBlock(index, t, transactions, previous_hash, d) ==
    LET b == Block(index, t, transactions, previous_hash, 0, EmptyStr)
        n == CHOOSE n \in 0..MaxZeros :
                 ~StartsWithZeros(ComputeHash([b EXCEPT !.nonce = n]), d)
    IN [b EXCEPT !.nonce = n, !.hash = ComputeHash([b EXCEPT !.nonce = n])]

\* The genesis block of a network started at time 0.
G0 == Block(0, 0, <<>>, ZeroHash, 0, EmptyStr)

\* Blocks of peers' chains, mined at the initial difficulty on G0.
PB1 == MinedBlock(1, 1, <<CoinbaseTx(PeerCoinbaseTxid(1), "B", 1)>>, G0.hash,
                  InitialDifficulty)
\* B, paid by PB1, sends 30 to A.
PB2 == MinedBlock(2, 2, <<CoinbaseTx(PeerCoinbaseTxid(2), "B", 2), T2>>, PB1.hash,
                  InitialDifficulty)
\* A block that links to G0 and carries index 7.
PB7 == MinedBlock(7, 1, <<CoinbaseTx(PeerCoinbaseTxid(1), "B", 1)>>, G0.hash,
                  InitialDifficulty)
\* A block that links to nothing and carries no coinbase.
PBLoose == Block(1, 1, <<>>, <<"bad">>, 0, <<"bad">>)

\* What a peer answers on GET /chain: the length it reports and its chain.
PeerResponses ==
    { [length |-> 2, chain |-> <<G0, PB1>>],
      [length |-> 3, chain |-> <<G0, PB1, PB2>>],
      [length |-> 2, chain |-> <<G0, PB7>>],
      [length |-> 2, chain |-> <<G0, PBLoose>>],
      [length |-> 9, chain |-> <<G0>>] }

\* The chain as a node running this code builds it from its genesis block:
\* every later block is one add_block accepts on the blocks before it, at the
\* difficulty the retarget rule gives there and on the UTXO set they replay to.
RECURSIVE BuiltFrom(_, _, _, _)
BuiltFrom(c, i, utxos_i, d) ==
    IF i > Len(c) THEN TRUE
    ELSE LET r == AddBlockResult(SubSeq(c, 1, i - 1), utxos_i, d, c[i], c[i].hash)
         IN r.ok /\ BuiltFrom(c, i + 1, r.utxos, r.difficulty)

ValidFromGenesis(c) ==
    /\ c # <<>>
    /\ c[1].index = 0
    /\ c[1].previous_hash = ZeroHash
    /\ BuiltFrom(c, 2, RebuildUtxoSet(<<c[1]>>), InitialDifficulty)

\* ------------------------------------------------------------ state
VARIABLES
    chain,          \* Blockchain.chain
    utxos,          \* Blockchain.utxo_set.utxos
    mempool,        \* Blockchain.mempool.transactions
    difficulty,     \* Blockchain.difficulty
    now,            \* time.time()
    healthy_peers,  \* network_manager.healthy_peers
    rpc,            \* resolve_conflicts: "idle" or "poll" (inside the loop)
    r_max_length,   \* resolve_conflicts: max_length
    r_new_chain,    \* resolve_conflicts: new_chain (<<>> is None)
    r_todo,         \* resolve_conflicts: the peers the loop has yet to visit
    r_size,         \* resolve_conflicts: size of healthy_peers when the loop began
    r_best,         \* history: length of the longest chain, valid from genesis and
                    \* longer than the local one, a peer returned in this run
    op,             \* the last operation finished and what it returned
    m_pc,           \* mine(): "idle", "taken" (after get_transactions_for_block)
                    \* or "built" (after proof_of_work)
    m_txs,          \* mine(): transactions
    m_block,        \* mine(): new_block with its proof (<<>> before it is built)
    ab_pc,          \* add_block: "idle" or "appended" (after chain.append)
    ab_block,       \* add_block: block (<<>> when idle)
    nodes,          \* the global nodes
    known_peers,    \* network_manager.known_peers
    peer_status,    \* network_manager.peer_status
    broadcast_history,  \* network_manager.broadcast_history
    broadcast_stats,    \* network_manager.broadcast_stats
    timers,         \* threading.Timer(2.0, safe_broadcast_nodes_list) pending
    u_pc,           \* update_utxo_set: "idle", "loop" (between transactions), "spend",
                    \* "recipient" or "change" (inside the application of one)
    u_i,            \* update_utxo_set: position of tx_dict in block.transactions
    u_selected,     \* update_utxo_set: selected_utxos not yet spent
    u_total,        \* update_utxo_set: total_selected
    u_before,       \* history: the UTXO set when the application of tx_dict began
    q_balance,      \* GET /balance/<address>: the address asked and the balance returned
    g_taken,        \* what the last get_transactions_for_block returned
    outbox,         \* the POSTs sent to peers by the last handler or timer that
                    \* relays gossip: none if it relayed nothing
    b_pc,           \* a timer thread inside can_broadcast_now: "idle", or "checked"
                    \* (both limits read and found open, the counters not yet written)
    b_time,         \* that thread's current_time
    auto_mining_enabled,    \* the global auto_mining_enabled
    auto_mining_started,    \* the global auto_mining_started
    mining_mode,    \* the mode last asked for: "disabled", "transaction_driven" or
                    \* "continuous" (the code keeps it only in the response)
    last_block_time,    \* auto_mining: last_block_time
    s_checked,      \* callers of start_auto_mining_if_needed past the test of
                    \* auto_mining_started and before the assignment
    mining_workers, \* AutoMining threads started so far
    p_pc,           \* periodic_sync: "sleep", "resolving" or "dead" (the thread ended)
    net_nodes,      \* the network: the global nodes of the node at each address
    net_healthy,    \* the network: each node's network_manager.healthy_peers
    net_timers,     \* the network: each node's Timers started and not yet fired
    net_stats,      \* the network: each node's network_manager.broadcast_stats
    net_history,    \* the network: each node's network_manager.broadcast_history
    net_inbox,      \* the network: the /nodes/sync requests posted and not yet handled
    net_sent        \* the network: the /nodes/sync requests posted so far

vars == <<chain, utxos, mempool, difficulty, now, healthy_peers, rpc, r_max_length,
          r_new_chain, r_todo, r_size, r_best, op, m_pc, m_txs, m_block, ab_pc,
          ab_block, nodes, known_peers, peer_status, broadcast_history, broadcast_stats,
          timers, u_pc, u_i, u_selected, u_total, u_before, q_balance, g_taken, outbox,
          b_pc, b_time, auto_mining_enabled, auto_mining_started, mining_mode,
          last_block_time, s_checked, mining_workers, p_pc, net_nodes, net_healthy,
          net_timers, net_stats, net_history, net_inbox, net_sent>>

miner == <<m_pc, m_txs, m_block>>

adder == <<ab_pc, ab_block>>

registry == <<nodes, known_peers, peer_status, broadcast_history, broadcast_stats, timers>>

resolver == <<rpc, r_max_length, r_new_chain, r_todo, r_size, r_best>>

applier == <<u_pc, u_i, u_selected, u_total, u_before>>

limiter == <<b_pc, b_time>>

automine == <<auto_mining_enabled, auto_mining_started, mining_mode, last_block_time,
              s_checked, mining_workers, p_pc>>

network == <<net_nodes, net_healthy, net_timers, net_stats, net_history, net_inbox, net_sent>>

workers == <<applier, q_balance, g_taken, outbox, limiter, automine, network, network>>

Done(name, result) == [name |-> name, result |-> result]

\* No update_utxo_set under way, nothing asked yet.
WorkersInit ==
    /\ u_pc = "idle"
    /\ u_i = 0
    /\ u_selected = <<>>
    /\ u_total = 0
    /\ u_before = <<>>
    /\ q_balance = <<>>
    /\ g_taken = <<>>
    /\ outbox = {}
    /\ b_pc = "idle"
    /\ b_time = 0
    /\ auto_mining_enabled = FALSE
    /\ auto_mining_started = FALSE
    /\ mining_mode = "disabled"
    /\ last_block_time = 0
    /\ s_checked = 0
    /\ mining_workers = 0
    /\ p_pc = "sleep"
    /\ net_nodes = [n \in Addrs |-> {}]
    /\ net_healthy = [n \in Addrs |-> {}]
    /\ net_timers = [n \in Addrs |-> 0]
    /\ net_stats = [n \in Addrs |-> NoStats]
    /\ net_history = [n \in Addrs |-> {}]
    /\ net_inbox = {}
    /\ net_sent = 0

Init ==
    /\ chain = <<>>
    /\ utxos = <<>>
    /\ mempool = <<>>
    /\ difficulty = InitialDifficulty
    /\ now = 0
    /\ healthy_peers = {}
    /\ rpc = "idle"
    /\ r_max_length = 0
    /\ r_new_chain = <<>>
    /\ r_todo = {}
    /\ r_size = 0
    /\ r_best = 0
    /\ op = Done("init", "ok")
    /\ m_pc = "idle"
    /\ m_txs = <<>>
    /\ m_block = <<>>
    /\ ab_pc = "idle"
    /\ ab_block = <<>>
    /\ nodes = {}
    /\ known_peers = {}
    /\ peer_status = NoStatus
    /\ broadcast_history = {}
    /\ broadcast_stats = NoStats
    /\ timers = 0
    /\ WorkersInit

\* ------------------------------------------------------------ actions
\* Blockchain.create_genesis_block, called on an empty chain.
CreateGenesis ==
    /\ chain = <<>>
    /\ chain' = <<Block(0, now, <<>>, ZeroHash, 0, EmptyStr)>>
    /\ op' = Done("create_genesis_block", "ok")
    /\ UNCHANGED <<workers, miner, adder, registry, utxos, mempool, difficulty, now, healthy_peers, resolver>>

\* POST /transaction/new: Blockchain.add_new_transaction.
NewTransaction(tx) ==
    /\ LET v == ValidateTransaction(tx, utxos)
           a == AddTransaction(mempool, tx)
       IN IF ~v.ok
          THEN /\ op' = Done("new_transaction", v.msg)
               /\ UNCHANGED mempool
          ELSE /\ mempool' = a.pool
               /\ op' = Done("new_transaction", IF a.ok THEN "added" ELSE "not_added")
    /\ UNCHANGED <<workers, miner, adder, registry, chain, utxos, difficulty, now, healthy_peers, resolver>>

\* GET /mine, d seconds after the last block: Blockchain.mine.
Mine(miner_address, d) ==
    /\ difficulty <= MaxZeros
    /\ LET r == MineResult(chain, utxos, mempool, difficulty, miner_address, now + d)
       IN /\ chain' = r.chain
          /\ utxos' = r.utxos
          /\ mempool' = r.mempool
          /\ difficulty' = r.difficulty
          /\ now' = IF r.result = "mined" THEN now + d ELSE now
          /\ op' = Done("mine", r.result)
    /\ UNCHANGED <<workers, miner, adder, registry, healthy_peers, resolver>>

\* The first lines of resolve_conflicts, up to the loop over healthy_peers.
BeginResolve ==
    /\ rpc = "idle"
    /\ rpc' = "poll"
    /\ r_max_length' = Len(chain)
    /\ r_new_chain' = <<>>
    /\ r_todo' = healthy_peers
    /\ r_size' = Cardinality(healthy_peers)
    /\ r_best' = 0

\* POST /block/receive.
ReceiveBlock(b, source_addr) ==
    LET local_last_index == Len(chain) - 1
    IN IF b.index = local_last_index + 1
       THEN /\ LET r == AddBlockResult(chain, utxos, difficulty, b, b.hash)
               IN /\ chain' = r.chain
                  /\ utxos' = r.utxos
                  /\ difficulty' = r.difficulty
                  /\ mempool' = IF r.ok THEN RemoveConfirmedTransactions(mempool, b)
                                ELSE mempool
                  /\ now' = IF r.ok /\ b.timestamp > now THEN b.timestamp ELSE now
                  /\ op' = Done("receive_block", r.msg)
                  /\ outbox' = IF r.ok
                               THEN Posts(ForwardTargets(healthy_peers, source_addr),
                                          "/block/receive")
                               ELSE {}
            /\ UNCHANGED <<applier, q_balance, limiter, automine, network, g_taken, miner, adder, registry, healthy_peers,
                           resolver>>
       ELSE IF b.index > local_last_index + 1
       THEN /\ BeginResolve
            /\ op' = Done("receive_block", "resolve")
            /\ outbox' = {}
            /\ UNCHANGED <<applier, q_balance, limiter, automine, network, g_taken, miner, adder, registry, chain, utxos,
                           mempool, difficulty, now, healthy_peers>>
       ELSE /\ op' = Done("receive_block", "ignored")
            /\ outbox' = {}
            /\ UNCHANGED <<applier, q_balance, limiter, automine, network, g_taken, miner, adder, registry, chain, utxos,
                           mempool, difficulty, now, healthy_peers, resolver>>

\* GET /nodes/resolve and the periodic resolver: resolve_conflicts begins.
ResolveStart ==
    /\ BeginResolve
    /\ UNCHANGED <<workers, miner, adder, registry, chain, utxos, mempool, difficulty, now, healthy_peers, op>>

\* One iteration of the loop of resolve_conflicts: peer p answers resp.
ResolvePoll(p, resp) ==
    /\ rpc = "poll"
    /\ Cardinality(healthy_peers) = r_size
    /\ p \in r_todo
    /\ r_todo' = r_todo \ {p}
    /\ IF /\ resp.length > r_max_length
          /\ ValidateChain(resp.chain, utxos, difficulty)
       THEN /\ r_max_length' = resp.length
            /\ r_new_chain' = resp.chain
       ELSE UNCHANGED <<r_max_length, r_new_chain>>
    /\ r_best' = IF /\ chain # <<>>
                    /\ Len(resp.chain) > Len(chain)
                    /\ Len(resp.chain) > r_best
                    /\ resp.chain[1] = chain[1]
                    /\ ValidFromGenesis(resp.chain)
                 THEN Len(resp.chain) ELSE r_best
    /\ UNCHANGED <<workers, miner, adder, registry, chain, utxos, mempool, difficulty, now, healthy_peers, rpc, r_size,
                   op>>

\* One iteration of the loop in which the request to peer p fails.
ResolvePollFail(p) ==
    /\ rpc = "poll"
    /\ Cardinality(healthy_peers) = r_size
    /\ p \in r_todo
    /\ r_todo' = r_todo \ {p}
    /\ UNCHANGED <<workers, miner, adder, registry, chain, utxos, mempool, difficulty, now, healthy_peers, rpc,
                   r_max_length, r_new_chain, r_size, r_best, op>>

\* The set iterator finds healthy_peers changed in size: RuntimeError leaves
\* resolve_conflicts.
ResolveAbort ==
    /\ rpc = "poll"
    /\ Cardinality(healthy_peers) # r_size
    /\ rpc' = "idle"
    /\ op' = Done("resolve_conflicts", "exception")
    /\ UNCHANGED <<workers, miner, adder, registry, chain, utxos, mempool, difficulty, now, healthy_peers, r_max_length,
                   r_new_chain, r_todo, r_size, r_best>>

\* The end of resolve_conflicts, after the loop.
ResolveFinish ==
    /\ rpc = "poll"
    /\ Cardinality(healthy_peers) = r_size
    /\ r_todo = {}
    /\ rpc' = "idle"
    /\ IF r_new_chain # <<>>
       THEN /\ chain' = r_new_chain
            /\ utxos' = RebuildUtxoSet(r_new_chain)
            /\ op' = Done("resolve_conflicts", "replaced")
       ELSE /\ op' = Done("resolve_conflicts", "kept")
            /\ UNCHANGED <<chain, utxos>>
    /\ UNCHANGED <<workers, miner, adder, registry, mempool, difficulty, now, healthy_peers, r_max_length, r_new_chain,
                   r_todo, r_size, r_best>>

\* sync_with_node, the chain part: the peer answers resp on GET /chain.
SyncWithNode(resp) ==
    /\ rpc = "idle"
    /\ resp.chain # <<>>
    /\ chain' = resp.chain
    /\ utxos' = RebuildUtxoSet(resp.chain)
    /\ op' = Done("sync_with_node", "installed")
    /\ UNCHANGED <<workers, miner, adder, registry, mempool, difficulty, now, healthy_peers, resolver>>

\* POST /nodes/check/<addr>: NetworkManager.force_check_peer; up tells
\* whether the peer answers 200.
ForceCheckPeer(peer_addr, up) ==
    /\ healthy_peers' = IF up THEN healthy_peers \cup {peer_addr}
                        ELSE healthy_peers \ {peer_addr}
    /\ UNCHANGED <<workers, miner, adder, registry, chain, utxos, mempool, difficulty, now, resolver, op>>

\* The coinbase of a peer's block at time t.
PeerCoinbase(t) == CoinbaseTx(PeerCoinbaseTxid(t), "B", t)

\* Transaction lists of the blocks peers send.
PeerTxLists(t) ==
    { <<PeerCoinbase(t)>>,
      <<PeerCoinbase(t), T1>>,
      <<>>,
      <<PeerCoinbase(t), CoinbaseTx(PeerCoinbaseTxid(t + 1), "B", t)>>,
      <<PeerCoinbase(t), TForged>>,
      <<PeerCoinbase(t), TBig>> }

\* The blocks peers post to /block/receive on the local tip in the current
\* state: well-formed ones, and ones with a wrong previous hash, without
\* proof of work, or with a hash that is not the block's.
PeerBlocksOnTip ==
    LET t == now + 1
        n == Len(chain)
        tip == IF chain = <<>> THEN ZeroHash ELSE chain[n].hash
        cb == <<PeerCoinbase(t)>>
    IN { MinedBlock(n, t, txs, tip, difficulty) : txs \in PeerTxLists(t) }
       \cup { MinedBlock(n, t, cb, <<"bad">>, difficulty),
              UnminedBlock(n, t, cb, tip, difficulty),
              [MinedBlock(n, t, cb, tip, difficulty) EXCEPT !.hash = <<"0000">>] }

\* Blocks ahead of the local tip and behind it.
PeerBlocksOffTip ==
    LET t == now + 1
        n == Len(chain)
        tip == IF chain = <<>> THEN ZeroHash ELSE chain[n].hash
        cb == <<PeerCoinbase(t)>>
    IN {MinedBlock(n + 1, t, cb, tip, difficulty)}
       \cup (IF n = 0 THEN {} ELSE {MinedBlock(n - 1, t, cb, tip, difficulty)})

\* A second signed transfer of 30 from A.
T1b == SignedTx("A", "B", 30, 1, 3)

\* MAX_TXS_PER_BLOCK signed transfers of 30 from A, one per nonce.
ManyTransfers(t) ==
    [k \in 1..MAX_TXS_PER_BLOCK |-> SignedTx("A", "B", 30, 10 + k, t)]

\* Transaction lists of the blocks a peer that assembles blocks its own way
\* sends: a coinbase of 1000, a coinbase with MAX_TXS_PER_BLOCK transfers, and
\* two transfers of 30 from the same sender.
ForeignTxLists(t) ==
    { <<[PeerCoinbase(t) EXCEPT !.amount = 1000]>>,
      <<PeerCoinbase(t)>> \o ManyTransfers(t),
      <<PeerCoinbase(t), T1, T1b>> }

\* Such blocks, mined on the local tip at the current difficulty.
ForeignBlocksOnTip ==
    LET t == now + 1
        n == Len(chain)
        tip == IF chain = <<>> THEN ZeroHash ELSE chain[n].hash
    IN { MinedBlock(n, t, txs, tip, difficulty) : txs \in ForeignTxLists(t) }

\* ------------------------------------------------------------ specifications
\* The chain engine alone: transactions, mining and blocks received on the tip.
SubmitStep == Len(mempool) < MaxPool /\ \E tx \in TxInputs : NewTransaction(tx)

MineStep == Len(chain) < MaxChain /\ Mine("A", 1)

ReceiveStep ==
    /\ Len(chain) < MaxChain
    /\ difficulty <= MaxZeros
    /\ \E b \in PeerBlocksOnTip : ReceiveBlock(b, Host("p1"))

NextChain ==
    \/ CreateGenesis
    \/ SubmitStep
    \/ MineStep
    \/ ReceiveStep

SpecChain == Init /\ [][NextChain]_vars

\* The node with its resolver and peer synchronisation, on short chains.
NetSubmitStep == Len(mempool) < MaxPool /\ \E tx \in TxInputs : NewTransaction(tx)

NetMineStep == Len(chain) < MaxNetChain /\ now < MaxTime /\ Mine("A", 1)

NetReceiveStep ==
    /\ Len(chain) < MaxNetChain
    /\ now < MaxTime
    /\ difficulty <= MaxZeros
    /\ \E b \in PeerBlocksOnTip \cup PeerBlocksOffTip : ReceiveBlock(b, Host("p1"))

Next ==
    \/ CreateGenesis
    \/ NetSubmitStep
    \/ NetMineStep
    \/ NetReceiveStep
    \/ ResolveStart
    \/ \E p \in Peers, resp \in PeerResponses : ResolvePoll(p, resp)
    \/ \E p \in Peers : ResolvePollFail(p)
    \/ ResolveAbort
    \/ ResolveFinish
    \/ \E resp \in PeerResponses : SyncWithNode(resp)
    \/ \E p \in Peers, up \in BOOLEAN : ForceCheckPeer(p, up)

Spec == Init /\ [][Next]_vars

\* The chain engine facing peers that assemble blocks their own way.
PeerMineStep == Len(chain) < MaxPeerChain /\ Mine("A", 1)

PeerReceiveStep ==
    /\ Len(chain) < MaxPeerChain
    /\ difficulty <= MaxZeros
    /\ \E b \in PeerBlocksOnTip \cup ForeignBlocksOnTip : ReceiveBlock(b, Host("p1"))

NextPeer ==
    \/ CreateGenesis
    \/ SubmitStep
    \/ PeerMineStep
    \/ PeerReceiveStep

SpecPeer == Init /\ [][NextPeer]_vars

\* ------------------------------------------------------------ the mempool
\* mine() step by step, as the other threads of the node see it. First the
\* call of get_transactions_for_block and the coinbase put in front.
MineTake(miner_address) ==
    /\ m_pc = "idle"
    /\ LET got == GetTransactionsForBlock(mempool, MAX_TXS_PER_BLOCK)
           t == now + 1
       IN /\ mempool' = got.pool
          /\ m_txs' = <<CoinbaseTx(CoinbaseTxid(t), miner_address, t)>> \o got.taken
    /\ m_pc' = "taken"
    /\ UNCHANGED <<workers, chain, utxos, difficulty, now, healthy_peers, resolver, op, m_block,
                   adder, registry>>

\* mine(): validate_block_transactions, and either the re-admission loop and
\* the exception, or the new block and its proof of work.
MineBuild ==
    /\ m_pc = "taken"
    /\ difficulty <= MaxZeros
    /\ IF ~ValidateBlockTransactions(m_txs, utxos)
       THEN /\ mempool' = ReAdmit(mempool, Tail(m_txs))
            /\ m_pc' = "idle"
            /\ m_txs' = <<>>
            /\ m_block' = <<>>
            /\ op' = Done("mine", "invalid_bundle")
       ELSE /\ LET new_block == Block(IF chain = <<>> THEN 0
                                      ELSE chain[Len(chain)].index + 1,
                                      m_txs[1].timestamp, m_txs,
                                      IF chain = <<>> THEN ZeroHash
                                      ELSE chain[Len(chain)].hash,
                                      0, EmptyStr)
                   pow == ProofOfWork(new_block, difficulty)
               IN m_block' = <<[block |-> [new_block EXCEPT !.nonce = pow.nonce],
                                proof |-> pow.hash]>>
            /\ m_pc' = "built"
            /\ UNCHANGED <<mempool, m_txs, op>>
    /\ UNCHANGED <<workers, chain, utxos, difficulty, now, healthy_peers, resolver, adder,
                   registry>>

\* mine(): add_block, and either the re-admission loop or
\* remove_confirmed_transactions.
MineFinish ==
    /\ m_pc = "built"
    /\ ab_pc = "idle"
    /\ LET mined == m_block[1].block
           r == AddBlockResult(chain, utxos, difficulty, mined, m_block[1].proof)
       IN /\ chain' = r.chain
          /\ utxos' = r.utxos
          /\ difficulty' = r.difficulty
          /\ mempool' = IF r.ok THEN RemoveConfirmedTransactions(mempool, mined)
                        ELSE ReAdmit(mempool, Tail(m_txs))
          /\ now' = IF r.ok /\ mined.timestamp > now THEN mined.timestamp ELSE now
          /\ op' = Done("mine", IF r.ok THEN "mined" ELSE "rejected")
    /\ m_pc' = "idle"
    /\ m_txs' = <<>>
    /\ m_block' = <<>>
    /\ UNCHANGED <<workers, healthy_peers, resolver, adder, registry>>

\* The node after genesis and one block mined by A.
Funded ==
    MineResult(<<Block(0, 0, <<>>, ZeroHash, 0, EmptyStr)>>, <<>>, <<>>,
               InitialDifficulty, "A", 1)

\* n transfers of 30 signed by A, one per nonce, as POST /transaction/new
\* admits them while A holds 50.
Pending(n) == [k \in 1..n |-> SignedTx("A", "B", 30, 10 + k, 1)]

\* The transactions submitted to a nearly full pool: new ones, and one that
\* is pending already.
PoolInputs == {SignedTx("A", "B", 30, k, 2) : k \in 1..(PoolRoom + 1)} \cup {Pending(1)[1]}

\* The block a peer sends meanwhile: it moves the tip.
PoolBlocks ==
    LET t == now + 1
        n == Len(chain)
    IN {MinedBlock(n, t, <<PeerCoinbase(t)>>, chain[n].hash, difficulty)}

\* The node with PoolRoom free places in its mempool.
PoolInit ==
    /\ chain = Funded.chain
    /\ utxos = Funded.utxos
    /\ difficulty = Funded.difficulty
    /\ mempool = Pending(max_size - PoolRoom)
    /\ now = 1
    /\ healthy_peers = {}
    /\ rpc = "idle"
    /\ r_max_length = 0
    /\ r_new_chain = <<>>
    /\ r_todo = {}
    /\ r_size = 0
    /\ r_best = 0
    /\ op = Done("mine", "mined")
    /\ m_pc = "idle"
    /\ m_txs = <<>>
    /\ m_block = <<>>
    /\ ab_pc = "idle"
    /\ ab_block = <<>>
    /\ nodes = {}
    /\ known_peers = {}
    /\ peer_status = NoStatus
    /\ broadcast_history = {}
    /\ broadcast_stats = NoStats
    /\ timers = 0
    /\ WorkersInit

PoolSubmitStep == \E tx \in PoolInputs : NewTransaction(tx)

PoolMineStep == Len(chain) < MaxPoolChain /\ MineTake("A")

PoolReceiveStep ==
    /\ Len(chain) < MaxPoolChain
    /\ difficulty <= MaxZeros
    /\ \E b \in PoolBlocks : ReceiveBlock(b, Host("p1"))

NextPool ==
    \/ PoolSubmitStep
    \/ PoolMineStep
    \/ MineBuild
    \/ MineFinish
    \/ PoolReceiveStep

SpecPool == PoolInit /\ [][NextPool]_vars

\* ------------------------------------------------------------ the peer registry
\* add_node: what it returns and the sets it leaves.
AddNode(ns, kp, node_addr) ==
    IF node_addr \notin ns /\ node_addr # my_node_address
    THEN [ok |-> TRUE, nodes |-> ns \cup {node_addr}, known_peers |-> kp \cup {node_addr}]
    ELSE [ok |-> FALSE, nodes |-> ns, known_peers |-> kp]

\* The loop `for node in nodes_list: if add_node(node): newly_added.append(node)`.
RECURSIVE AddAll(_, _, _)
AddAll(ns, kp, nodes_list) ==
    IF nodes_list = <<>> THEN [nodes |-> ns, known_peers |-> kp, newly_added |-> <<>>]
    ELSE LET a == AddNode(ns, kp, Head(nodes_list))
             r == AddAll(a.nodes, a.known_peers, Tail(nodes_list))
         IN [r EXCEPT !.newly_added = (IF a.ok THEN <<Head(nodes_list)>> ELSE <<>>) \o @]

\* NetworkManager.can_broadcast without the test of message_id.
CanBroadcastUnchecked(history, message_id, source_addr, t) ==
    LET kept == {r \in history : ~(t - r.timestamp > broadcast_ttl)}
    IN [ok |-> TRUE,
        history |-> kept \cup {[id |-> message_id, timestamp |-> t,
                                source |-> source_addr]}]

\* NetworkManager.can_broadcast at time t: the answer and the history left.
CanBroadcast(history, message_id, source_addr, t) ==
    LET kept == {r \in history : ~(t - r.timestamp > broadcast_ttl)}
    IN IF \E r \in kept : r.id = message_id
       THEN [ok |-> FALSE, history |-> kept]
       ELSE [ok |-> TRUE,
             history |-> kept \cup {[id |-> message_id, timestamp |-> t,
                                     source |-> source_addr]}]

\* NetworkManager.can_broadcast_now at time t: the answer and the stats left.
CanBroadcastNow(stats, t) ==
    LET s1 == IF t - stats.last_reset > 60
              THEN [stats EXCEPT !.broadcast_count = 0, !.last_reset = t]
              ELSE stats
    IN IF s1.broadcast_count >= max_broadcasts_per_minute THEN [ok |-> FALSE, stats |-> s1]
       ELSE IF t - s1.last_broadcast < 1 THEN [ok |-> FALSE, stats |-> s1]
       ELSE [ok |-> TRUE,
             stats |-> [s1 EXCEPT !.broadcast_count = @ + 1, !.last_broadcast = t]]

\* POST /nodes/register from source_addr.
RegisterNodes(nodes_list, source_addr) ==
    /\ LET r == AddAll(nodes, known_peers, nodes_list)
       IN IF nodes_list = <<>>
          THEN /\ op' = Done("register_nodes", "400")
               /\ outbox' = {}
               /\ UNCHANGED <<nodes, known_peers, broadcast_stats>>
          ELSE /\ nodes' = r.nodes
               /\ known_peers' = r.known_peers
               /\ broadcast_stats' = IF r.newly_added # <<>>
                                     THEN CanBroadcastNow(broadcast_stats, now).stats
                                     ELSE broadcast_stats
               /\ outbox' = IF r.newly_added # <<>> /\ CanBroadcastNow(broadcast_stats, now).ok
                            THEN Posts(NodesListTargets(healthy_peers, source_addr),
                                       "/nodes/sync")
                            ELSE {}
               /\ op' = Done("register_nodes", IF r.newly_added # <<>> THEN "added" ELSE "none")
    /\ UNCHANGED <<applier, q_balance, limiter, automine, network, g_taken, chain, utxos, mempool, difficulty, now, healthy_peers, resolver, miner,
                   adder, peer_status, broadcast_history, timers>>

\* POST /nodes/sync from source_addr; message_id "" is a body without one.
SyncNodes(nodes_list, message_id, source_addr) ==
    /\ LET consulted == message_id # ""
           cb == CanBroadcast(broadcast_history, message_id, source_addr, now)
           r == AddAll(nodes, known_peers, nodes_list)
       IN /\ broadcast_history' = IF consulted THEN cb.history ELSE broadcast_history
          /\ IF consulted /\ ~cb.ok
             THEN /\ op' = Done("sync_nodes", "duplicate")
                  /\ UNCHANGED <<nodes, known_peers, timers>>
             ELSE IF nodes_list = <<>>
             THEN /\ op' = Done("sync_nodes", "400")
                  /\ UNCHANGED <<nodes, known_peers, timers>>
             ELSE /\ nodes' = r.nodes
                  /\ known_peers' = r.known_peers
                  /\ timers' = IF r.newly_added # <<>> THEN timers + 1 ELSE timers
                  /\ op' = Done("sync_nodes", IF r.newly_added # <<>> THEN "added" ELSE "none")
    /\ outbox' = {}
    /\ UNCHANGED <<applier, q_balance, limiter, automine, network, g_taken, chain, utxos, mempool, difficulty, now, healthy_peers, resolver, miner,
                   adder, peer_status, broadcast_stats>>

\* A Timer started by sync_nodes fires: safe_broadcast_nodes_list.
TimerFires ==
    /\ timers > 0
    /\ timers' = timers - 1
    /\ LET c == CanBroadcastNow(broadcast_stats, now)
       IN /\ broadcast_stats' = c.stats
          /\ outbox' = IF c.ok THEN Posts(NodesListTargets(healthy_peers, ""), "/nodes/sync")
                       ELSE {}
          /\ op' = Done("safe_broadcast_nodes_list", IF c.ok THEN "sent" ELSE "limited")
    /\ UNCHANGED <<applier, q_balance, limiter, automine, network, g_taken, chain, utxos, mempool, difficulty, now, healthy_peers, resolver, miner,
                   adder, nodes, known_peers, peer_status, broadcast_history>>

\* safe_discover_network: a healthy peer answers GET /nodes/list with
\* remote_nodes.
Discover(remote_nodes) ==
    /\ healthy_peers # {}
    /\ LET r == AddAll(nodes, known_peers, remote_nodes)
       IN /\ nodes' = r.nodes
          /\ known_peers' = r.known_peers
          /\ broadcast_stats' = IF r.newly_added # <<>>
                                THEN CanBroadcastNow(broadcast_stats, now).stats
                                ELSE broadcast_stats
          /\ op' = Done("safe_discover_network",
                      IF r.newly_added # <<>> THEN "added" ELSE "none")
    /\ UNCHANGED <<workers, chain, utxos, mempool, difficulty, now, healthy_peers, resolver, miner,
                   adder, peer_status, broadcast_history, timers>>

\* load_node_addresses, at start-up: the store holds the addresses stored.
LoadNodeAddresses(stored) ==
    /\ op = Done("init", "ok")
    /\ nodes' = stored
    /\ known_peers' = stored
    /\ op' = Done("load_node_addresses", "ok")
    /\ UNCHANGED <<workers, chain, utxos, mempool, difficulty, now, healthy_peers, resolver, miner,
                   adder, peer_status, broadcast_history, broadcast_stats, timers>>

\* The body of the loop of health_check for one known peer at time t; up
\* tells whether the peer answers 200. last_seen is written and never read:
\* it is left out.
Probe(st, up, t) ==
    LET s0 == IF st.present THEN st
              ELSE [present |-> TRUE, retries |-> 0, last_check |-> LongAgo]
    IN IF t - s0.last_check < 10 THEN s0
       ELSE IF up THEN [s0 EXCEPT !.last_check = t, !.retries = 0]
       ELSE [s0 EXCEPT !.last_check = t, !.retries = @ + 1]

\* One round of health_check; the peers of ups answer 200.
HealthCheck(ups) ==
    /\ LET probed == {p \in known_peers :
                        ~peer_status[p].present \/ ~(now - peer_status[p].last_check < 10)}
           new == [p \in Addrs |-> IF p \in known_peers
                                   THEN Probe(peer_status[p], p \in ups, now)
                                   ELSE peer_status[p]]
           dead_peers == {p \in probed \ ups : new[p].retries >= max_retries}
       IN /\ peer_status' = new
          /\ healthy_peers' = (healthy_peers \cup (probed \cap ups)) \ dead_peers
    /\ op' = Done("health_check", "round")
    /\ UNCHANGED <<workers, chain, utxos, mempool, difficulty, now, resolver, miner, adder, nodes,
                   known_peers, broadcast_history, broadcast_stats, timers>>

\* d seconds pass.
Pass(d) ==
    /\ now' = now + d
    /\ UNCHANGED <<workers, chain, utxos, mempool, difficulty, healthy_peers, resolver, op, miner,
                   adder, registry>>

\* The bodies peers post to /nodes/register and /nodes/sync.
NodeLists ==
    {<<>>, <<"p1">>, <<"p2", "p1">>, <<my_node_address>>, <<my_node_address, "p2">>}

\* The message ids of peer-list broadcasts; "" for a body without one.
MessageIds == {"m1", "m2", ""}

\* The smallest pause that outlives a broadcast memo and the probe floor.
Pace == broadcast_ttl + 1

PassStep == now + Pace <= MaxClock /\ Pass(Pace)

NetPassStep == now + Pace <= MaxNetClock /\ Pass(Pace)

SyncStep ==
    \E l \in NodeLists, m \in MessageIds : SyncNodes(l, m, Host("p1")) /\ timers' <= MaxTimers

\* The registry of peers and the broadcast memo.
NextNet ==
    \/ \E stored \in SUBSET Addrs : LoadNodeAddresses(stored)
    \/ \E l \in NodeLists : RegisterNodes(l, Host("p1"))
    \/ SyncStep
    \/ TimerFires
    \/ \E l \in NodeLists : Discover(l)
    \/ \E a \in Addrs, up \in BOOLEAN : ForceCheckPeer(a, up)
    \/ NetPassStep

SpecNet == Init /\ [][NextNet]_vars

\* The health loop.
HealthStep == \E ups \in SUBSET known_peers : HealthCheck(ups)

NextHealth ==
    \/ \E l \in NodeLists : RegisterNodes(l, Host("p1"))
    \/ HealthStep
    \/ \E a \in Addrs, up \in BOOLEAN : ForceCheckPeer(a, up)
    \/ PassStep

SpecHealth == Init /\ [][NextHealth]_vars

\* ------------------------------------------------------------ threads
\* receive_block on the tip, as the other threads of the node see it: add_block
\* takes chain_lock, validates and appends. The block rejected leaves at once.
AddBlockAppend(b) ==
    /\ ab_pc = "idle"
    /\ b.index = Len(chain)
    /\ LET r == AddBlockResult(chain, utxos, difficulty, b, b.hash)
       IN IF r.ok
          THEN /\ chain' = Append(chain, b)
               /\ ab_pc' = "appended"
               /\ ab_block' = <<b>>
               /\ UNCHANGED op
          ELSE /\ op' = Done("receive_block", r.msg)
               /\ UNCHANGED <<chain, ab_pc, ab_block>>
    /\ UNCHANGED <<workers, utxos, mempool, difficulty, now, healthy_peers, resolver, miner,
                   registry>>

\* The rest of add_block, on the chain and the UTXO set as they are by then:
\* update_utxo_set, adjust_difficulty, the release of chain_lock, and
\* receive_block's remove_confirmed_transactions.
AddBlockUpdate ==
    /\ ab_pc = "appended"
    /\ utxos' = UpdateUtxoSet(utxos, ab_block[1])
    /\ difficulty' = AdjustDifficulty(chain, difficulty)
    /\ mempool' = RemoveConfirmedTransactions(mempool, ab_block[1])
    /\ now' = IF ab_block[1].timestamp > now THEN ab_block[1].timestamp ELSE now
    /\ op' = Done("receive_block", "added")
    /\ ab_pc' = "idle"
    /\ ab_block' = <<>>
    /\ UNCHANGED <<workers, chain, healthy_peers, resolver, miner, registry>>

\* The end of resolve_conflicts, statement by statement: the assignment
\* blockchain.chain = new_chain, or the return when there is none.
ResolveAssign ==
    /\ rpc = "poll"
    /\ Cardinality(healthy_peers) = r_size
    /\ r_todo = {}
    /\ IF r_new_chain # <<>>
       THEN /\ chain' = r_new_chain
            /\ rpc' = "assigned"
            /\ UNCHANGED op
       ELSE /\ rpc' = "idle"
            /\ op' = Done("resolve_conflicts", "kept")
            /\ UNCHANGED chain
    /\ UNCHANGED <<workers, utxos, mempool, difficulty, now, healthy_peers, r_max_length,
                   r_new_chain, r_todo, r_size, r_best, miner, adder, registry>>

\* blockchain.rebuild_utxo_set(), over the chain as it is by then.
ResolveRebuild ==
    /\ rpc = "assigned"
    /\ utxos' = RebuildUtxoSet(chain)
    /\ rpc' = "idle"
    /\ op' = Done("resolve_conflicts", "replaced")
    /\ UNCHANGED <<workers, chain, mempool, difficulty, now, healthy_peers, r_max_length,
                   r_new_chain, r_todo, r_size, r_best, miner, adder, registry>>

\* The blocks a peer posts on the tip while the resolver runs.
RaceBlocks ==
    LET t == now + 1
        n == Len(chain)
        tip == IF chain = <<>> THEN ZeroHash ELSE chain[n].hash
    IN {MinedBlock(n, t, <<PeerCoinbase(t)>>, tip, difficulty)}

RaceReceiveStep ==
    /\ Len(chain) < MaxRaceChain
    /\ now < MaxTime
    /\ difficulty <= MaxZeros
    /\ \E b \in RaceBlocks : AddBlockAppend(b)

RaceMineStep ==
    /\ Len(chain) < MaxRaceChain
    /\ now < MaxTime
    /\ ab_pc = "idle"
    /\ Mine("A", 1)

\* The request threads, the miner and the resolver of one node.
NextRace ==
    \/ CreateGenesis
    \/ RaceMineStep
    \/ RaceReceiveStep
    \/ AddBlockUpdate
    \/ \E up \in BOOLEAN : ForceCheckPeer("p1", up)
    \/ ResolveStart
    \/ \E p \in Peers, resp \in PeerResponses : ResolvePoll(p, resp)
    \/ \E p \in Peers : ResolvePollFail(p)
    \/ ResolveAbort
    \/ ResolveAssign
    \/ ResolveRebuild

SpecRace == Init /\ [][NextRace]_vars

\* ------------------------------------------------------------ UTXO set, step by step
\* update_utxo_set as the request threads see it. UTXOSet.lock is held by each
\* add_utxo, spend_utxo, get_utxos_for_address and get_balance for its own
\* duration and by nothing longer, so every such call is one step.

\* tx_dict of the iteration under way.
UpdateTx == ab_block[1].transactions[u_i]

\* The end of the loop: the rest of add_block and of receive_block.
UpdateReturn ==
    /\ difficulty' = AdjustDifficulty(chain, difficulty)
    /\ mempool' = RemoveConfirmedTransactions(mempool, ab_block[1])
    /\ now' = IF ab_block[1].timestamp > now THEN ab_block[1].timestamp ELSE now
    /\ op' = Done("receive_block", "added")
    /\ ab_pc' = "idle"
    /\ ab_block' = <<>>
    /\ u_pc' = "idle"
    /\ u_i' = 0
    /\ UNCHANGED <<utxos, u_selected, u_total, u_before>>

\* The head of one iteration: a coinbase is added at once; for a transfer the
\* sender's entries are read, sorted and selected, and a transfer the sender
\* cannot fund is skipped.
UpdateNext ==
    /\ ab_pc = "appended"
    /\ u_pc \in {"idle", "loop"}
    /\ LET i == IF u_pc = "idle" THEN 1 ELSE u_i
           txs == ab_block[1].transactions
       IN IF i > Len(txs)
          THEN UpdateReturn
          ELSE LET tx == txs[i]
                   sorted == SortByAmount(GetUtxosForAddress(utxos, tx.sender))
                   n == TakeCount(sorted, tx.amount, 1, 0)
                   selected == SubSeq(sorted, 1, n)
                   total == SumAmount(selected)
               IN /\ u_before' = utxos
                  /\ IF tx.sender = "" \/ total < tx.amount
                     THEN /\ utxos' = IF tx.sender = "" THEN ApplyTx(utxos, tx) ELSE utxos
                          /\ u_pc' = "loop"
                          /\ u_i' = i + 1
                          /\ UNCHANGED <<u_selected, u_total>>
                     ELSE /\ u_pc' = IF selected = <<>> THEN "recipient" ELSE "spend"
                          /\ u_i' = i
                          /\ u_selected' = selected
                          /\ u_total' = total
                          /\ UNCHANGED utxos
                  /\ UNCHANGED <<difficulty, mempool, now, op, ab_pc, ab_block>>
    /\ UNCHANGED <<q_balance, limiter, automine, network, g_taken, outbox, chain, healthy_peers, resolver, miner, registry>>

\* One spend_utxo of the loop over selected_utxos.
UpdateSpend ==
    /\ u_pc = "spend"
    /\ utxos' = SpendUtxo(utxos, Head(u_selected).key)
    /\ u_selected' = Tail(u_selected)
    /\ u_pc' = IF Tail(u_selected) = <<>> THEN "recipient" ELSE "spend"
    /\ UNCHANGED <<u_i, u_total, u_before, q_balance, limiter, automine, network, g_taken, outbox, chain, mempool, difficulty, now,
                   healthy_peers, resolver, op, miner, adder, registry>>

\* add_utxo(txid, recipient, amount), and the change computed.
UpdateRecipient ==
    /\ u_pc = "recipient"
    /\ utxos' = AddUtxo(utxos, UpdateTx.txid, UpdateTx.recipient, UpdateTx.amount)
    /\ IF u_total - UpdateTx.amount > 0
       THEN u_pc' = "change" /\ u_i' = u_i
       ELSE u_pc' = "loop" /\ u_i' = u_i + 1
    /\ UNCHANGED <<u_selected, u_total, u_before, q_balance, limiter, automine, network, g_taken, outbox, chain, mempool, difficulty,
                   now, healthy_peers, resolver, op, miner, adder, registry>>

\* add_utxo(change_txid, sender, change).
UpdateChange ==
    /\ u_pc = "change"
    /\ utxos' = AddUtxo(utxos, ChangeKey(UpdateTx.txid), UpdateTx.sender,
                        u_total - UpdateTx.amount)
    /\ u_pc' = "loop"
    /\ u_i' = u_i + 1
    /\ UNCHANGED <<u_selected, u_total, u_before, q_balance, limiter, automine, network, g_taken, outbox, chain, mempool, difficulty,
                   now, healthy_peers, resolver, op, miner, adder, registry>>

\* GET /balance/<address>, on a request thread of its own.
BalanceQuery(address) ==
    /\ q_balance' = <<address, GetBalance(utxos, address)>>
    /\ UNCHANGED <<applier, g_taken, outbox, limiter, automine, network, chain, utxos, mempool, difficulty, now,
                   healthy_peers, resolver, op, miner, adder, registry>>

\* A transfer of all of A's first coinbase: no change is due.
TAll == SignedTx("A", "B", COINBASE_REWARD, 1, 1)

\* The blocks a peer posts on the tip: a coinbase to B with a transfer from A.
UtxoBlocks ==
    LET t == now + 1
        n == Len(chain)
        tip == IF chain = <<>> THEN ZeroHash ELSE chain[n].hash
    IN { MinedBlock(n, t, <<PeerCoinbase(t), tx>>, tip, difficulty) : tx \in {T1, TAll} }

UtxoReceiveStep ==
    /\ Len(chain) < MaxUtxoChain
    /\ difficulty <= MaxZeros
    /\ \E b \in UtxoBlocks : AddBlockAppend(b)

UtxoMineStep ==
    /\ Len(chain) < MaxUtxoChain
    /\ ab_pc = "idle"
    /\ Mine("A", 1)

UtxoQueryStep == \E address \in {"A", "B"} : BalanceQuery(address)

\* An appender and the balance queries of one node.
NextUtxo ==
    \/ CreateGenesis
    \/ UtxoMineStep
    \/ UtxoReceiveStep
    \/ UpdateNext
    \/ UpdateSpend
    \/ UpdateRecipient
    \/ UpdateChange
    \/ UtxoQueryStep

SpecUtxo == Init /\ [][NextUtxo]_vars

\* ------------------------------------------------------------ retargeting
\* Seconds between one block and the next: a quick block and a slow one.
Gaps == {1, 30}

\* A peer's blocks on the tip: a coinbase-only block one second after the
\* last, and one whose previous hash is not the tip's.
RetargetBlocks ==
    LET t == now + 1
        n == Len(chain)
        tip == chain[n].hash
        cb == <<PeerCoinbase(t)>>
    IN {MinedBlock(n, t, cb, tip, difficulty), MinedBlock(n, t, cb, <<"bad">>, difficulty)}

RetargetMineStep ==
    /\ chain # <<>>
    /\ Len(chain) < MaxRetargetChain
    /\ \E d \in Gaps : Mine("A", d)

RetargetReceiveStep ==
    /\ chain # <<>>
    /\ Len(chain) < MaxRetargetChain
    /\ difficulty <= MaxZeros
    /\ \E b \in RetargetBlocks : ReceiveBlock(b, Host("p1"))

\* A node that mines and receives blocks at varying intervals.
NextRetarget ==
    \/ CreateGenesis
    \/ RetargetMineStep
    \/ RetargetReceiveStep

SpecRetarget == Init /\ [][NextRetarget]_vars

\* ------------------------------------------------------------ the Mempool class
\* Mempool.add_transaction and Mempool.get_transactions_for_block called on
\* one Mempool from several threads: each holds Mempool.lock from its first
\* statement to its return, so each call is one step.
PoolAdd(tx) ==
    /\ LET a == AddTransaction(mempool, tx)
       IN /\ mempool' = a.pool
          /\ op' = Done("add_transaction", IF a.ok THEN "added" ELSE "not_added")
    /\ UNCHANGED <<workers, chain, utxos, difficulty, now, healthy_peers, resolver, miner,
                   adder, registry>>

PoolTake(max_count) ==
    /\ LET got == GetTransactionsForBlock(mempool, max_count)
       IN /\ mempool' = got.pool
          /\ g_taken' = got.taken
    /\ op' = Done("get_transactions_for_block", "returned")
    /\ UNCHANGED <<applier, q_balance, limiter, automine, network, outbox, chain, utxos, difficulty, now, healthy_peers,
                   resolver, miner, adder, registry>>

\* Transfers stamped in an order that is not the order of their arrival.
TakeInputs == {SignedTx("A", "B", 30, k, t) : k \in 1..2, t \in 1..MaxStamp}

PoolAddStep == Len(mempool) < MaxTakePool /\ \E tx \in TakeInputs : PoolAdd(tx)

PoolTakeStep == \E max_count \in 0..MaxTake : PoolTake(max_count)

NextTake ==
    \/ PoolAddStep
    \/ PoolTakeStep

SpecTake == Init /\ [][NextTake]_vars

\* ------------------------------------------------------------ gossip
\* POST /transaction/broadcast from source_addr. The thread the handler
\* starts for broadcast_to_others runs at once.
ReceiveTransaction(tx, source_addr) ==
    /\ LET v == ValidateTransaction(tx, utxos)
           a == AddTransaction(mempool, tx)
       IN IF ~v.ok
          THEN /\ op' = Done("receive_transaction", v.msg)
               /\ outbox' = {}
               /\ UNCHANGED mempool
          ELSE /\ mempool' = a.pool
               /\ outbox' = IF a.ok
                            THEN Posts(ForwardTargets(healthy_peers, source_addr),
                                       "/transaction/broadcast")
                            ELSE {}
               /\ op' = Done("receive_transaction", IF a.ok THEN "added" ELSE "not_added")
    /\ UNCHANGED <<applier, q_balance, limiter, automine, network, g_taken, chain, utxos, difficulty, now, healthy_peers,
                   resolver, miner, adder, registry>>

\* The peers of the gossip network and the hosts requests come from.
GossipPeers == Peers \cup {"p3"}

GossipHosts == {Host(p) : p \in GossipPeers}

\* The blocks peers relay: on the tip with and without a transfer, on the tip
\* with a wrong previous hash, ahead of the tip and behind it.
GossipBlocks ==
    LET t == now + 1
        n == Len(chain)
        tip == IF chain = <<>> THEN ZeroHash ELSE chain[n].hash
        cb == <<PeerCoinbase(t)>>
    IN { MinedBlock(n, t, cb, tip, difficulty),
         MinedBlock(n, t, cb \o <<T1>>, tip, difficulty),
         MinedBlock(n, t, cb, <<"bad">>, difficulty) }
       \cup PeerBlocksOffTip

GossipMineStep == Len(chain) < MaxGossipChain /\ now < MaxTime /\ Mine("A", 1)

GossipTxStep ==
    /\ Len(mempool) < MaxPool
    /\ \E tx \in {T1, TForged}, source_addr \in GossipHosts : ReceiveTransaction(tx, source_addr)

GossipBlockStep ==
    /\ Len(chain) < MaxGossipChain
    /\ now < MaxTime
    /\ difficulty <= MaxZeros
    /\ \E b \in GossipBlocks, source_addr \in GossipHosts : ReceiveBlock(b, source_addr)

\* The peers probed: a second port of the first host, and the other host.
GossipCheckStep == \E p \in {"p2", "p3"}, up \in BOOLEAN : ForceCheckPeer(p, up)

\* A node among peers that relay transactions and blocks.
NextGossip ==
    \/ GossipMineStep
    \/ GossipTxStep
    \/ GossipBlockStep
    \/ GossipCheckStep
    \/ \E p \in GossipPeers : ResolvePollFail(p)
    \/ ResolveAbort
    \/ ResolveFinish

SpecGossip == Init /\ [][NextGossip]_vars

\* ------------------------------------------------------------ claims
\* The sum of the unspent amounts of a UTXO set.
RECURSIVE TotalUnspent(_)
TotalUnspent(u) ==
    IF u = <<>> THEN 0
    ELSE (IF Head(u).spent THEN 0 ELSE Head(u).amount) + TotalUnspent(Tail(u))

\* The sum of the coinbase amounts update_utxo_set applied for a chain.
RECURSIVE CoinbaseSum(_)
CoinbaseSum(txs) ==
    IF txs = <<>> THEN 0
    ELSE (IF Head(txs).sender = "" /\ Head(txs).recipient # "" /\ Head(txs).amount > 0
          THEN Head(txs).amount ELSE 0) + CoinbaseSum(Tail(txs))

RECURSIVE CoinbaseApplied(_)
CoinbaseApplied(c) ==
    IF c = <<>> THEN 0
    ELSE CoinbaseSum(Head(c).transactions) + CoinbaseApplied(Tail(c))

\* C1: in every reachable state every block after the first carries its
\* position as index and the hash of the block before it as previous_hash.
C1_ChainLinked ==
    \A i \in 2..Len(chain) :
        chain[i].index = i - 1 /\ chain[i].previous_hash = chain[i - 1].hash

\* C2: in every reachable state every block of the chain, the genesis block
\* included, stores the hash of its own content, and that hash has at least
\* as many leading zeros as the current difficulty.
C2_HashIntegrity ==
    \A i \in 1..Len(chain) :
        /\ chain[i].hash = ComputeHash(chain[i])
        /\ StartsWithZeros(chain[i].hash, difficulty)

\* C3: in every reachable state every block of the chain, the genesis block
\* and installed blocks included, holds exactly one transaction whose sender
\* is the empty address.
C3_OneCoinbase ==
    \A i \in 1..Len(chain) :
        Cardinality({j \in 1..Len(chain[i].transactions) :
                       chain[i].transactions[j].sender = ""}) = 1

\* C4: validate_transaction accepts a transaction with a sender only if its
\* amount is positive, its txid is the hash of its own fields and its
\* signature over that txid verifies against the sender.
C4_AcceptedIsAuthentic ==
    \A tx \in TxInputs :
        (tx.sender # "" /\ ValidateTransaction(tx, utxos).ok) =>
            /\ tx.amount > 0
            /\ tx.txid = TxHash(tx.sender, tx.recipient, tx.amount, tx.nonce, tx.timestamp)
            /\ VerifyStatic(tx.txid, tx.signature, tx.sender)

\* C5: along block appends an entry of the UTXO set that is spent stays
\* spent: no step makes the entry under its key unspent again.
C5_SpentStaysSpent ==
    [][\A i \in 1..Len(utxos) :
          utxos[i].spent =>
              \E j \in 1..Len(utxos') : utxos'[j].key = utxos[i].key /\ utxos'[j].spent]_vars

\* C6: applying a transaction with a sender leaves the total of the unspent
\* amounts as it was, and the total equals the sum of the coinbase amounts
\* applied for the blocks of the chain.
C6_Conservation ==
    /\ \A tx \in TxInputs :
          (tx.sender # "" /\ ValidateTransaction(tx, utxos).ok) =>
              TotalUnspent(ApplyTx(utxos, tx)) = TotalUnspent(utxos)
    /\ TotalUnspent(utxos) = CoinbaseApplied(chain)

\* C7: every step that changes the chain appends exactly one block through
\* add_block or create_genesis_block, or is the resolver installing the
\* candidate that passed validate_chain.
C7_OnlyAppendOrResolver ==
    [][chain' # chain =>
          \/ /\ op'.name \in {"mine", "receive_block", "create_genesis_block"}
             /\ Len(chain') = Len(chain) + 1
             /\ SubSeq(chain', 1, Len(chain)) = chain
          \/ /\ op'.name = "resolve_conflicts"
             /\ rpc = "poll"
             /\ chain' = r_new_chain]_vars

\* C8: the chain resolve_conflicts installs has more blocks than the chain it
\* replaces.
C8_ReplacementIsLonger ==
    [][(rpc = "poll" /\ rpc' = "idle" /\ op'.name = "resolve_conflicts"
          /\ op'.result = "replaced")
          => Len(chain') > Len(chain)]_vars

\* C9: when a polled peer returned a chain longer than the local one that
\* shares its genesis block and is valid from genesis, resolve_conflicts ends
\* with the chain replaced by a chain at least that long, the UTXO set being
\* its replay, and returns true.
C9_LongerValidChainWins ==
    [][(rpc = "poll" /\ rpc' = "idle" /\ op'.name = "resolve_conflicts"
          /\ op'.result # "exception" /\ r_best > Len(chain))
          => /\ op'.result = "replaced"
             /\ Len(chain') >= r_best
             /\ utxos' = RebuildUtxoSet(chain')]_vars

\* C10: a block add_block rejects leaves the chain, the UTXO set, the mempool
\* and the difficulty as they were; a block it accepts is appended, alone.
C10_RejectKeepsState ==
    [][/\ (op'.name = "receive_block"
             /\ op'.result \in {"previous_hash", "proof", "size", "transactions"})
          => UNCHANGED <<chain, utxos, mempool, difficulty>>
       /\ (op'.name = "receive_block" /\ op'.result = "added")
          => \E b \in PeerBlocksOnTip : chain' = Append(chain, b)
       /\ (op'.name = "mine" /\ op'.result = "rejected")
          => UNCHANGED <<chain, utxos, difficulty>>
       /\ (op'.name = "mine" /\ op'.result = "mined")
          => /\ Len(chain') = Len(chain) + 1
             /\ SubSeq(chain', 1, Len(chain)) = chain]_vars

\* A received block was rejected for its transactions by a node that holds
\* blocks, unspent outputs and a pending transaction.
C10_Witness ==
    /\ op = Done("receive_block", "transactions")
    /\ Len(chain) >= 2
    /\ utxos # <<>>
    /\ mempool # <<>>

\* A transaction signed by its sender over the hash of its own fields.
SignedBySender(tx) ==
    /\ tx.sender # ""
    /\ tx.recipient # ""
    /\ tx.amount > 0
    /\ tx.txid = TxHash(tx.sender, tx.recipient, tx.amount, tx.nonce, tx.timestamp)
    /\ VerifyStatic(tx.txid, tx.signature, tx.sender)

\* C11: submitting a correctly signed transaction whose amount exceeds the
\* sender's unspent balance is rejected for the balance and leaves the mempool
\* as it was.
C11_OverdraftRejected ==
    [][\A tx \in TxInputs :
          (SignedBySender(tx) /\ tx.amount > GetBalance(utxos, tx.sender)
             /\ NewTransaction(tx))
          => (op' = Done("new_transaction", "balance") /\ mempool' = mempool)]_vars

\* A submission was rejected for the balance while A holds something, but
\* less than 30, and B at least 30: of the signed inputs only the transfers of
\* 30 from A exceed their sender's balance.
C11_Witness ==
    /\ op = Done("new_transaction", "balance")
    /\ GetBalance(utxos, "A") > 0
    /\ GetBalance(utxos, "A") < 30
    /\ GetBalance(utxos, "B") >= 30

\* C12: every coinbase transaction of every block of the chain pays exactly
\* COINBASE_REWARD.
C12_CoinbasePaysReward ==
    \A i \in 1..Len(chain) :
        \A j \in 1..Len(chain[i].transactions) :
            chain[i].transactions[j].sender = ""
                => chain[i].transactions[j].amount = COINBASE_REWARD

\* C13: every block of the chain holds at most MAX_TXS_PER_BLOCK
\* transactions, the coinbase included.
C13_BlockTxCount ==
    \A i \in 1..Len(chain) : Len(chain[i].transactions) <= MAX_TXS_PER_BLOCK

\* The mempool holds at most max_size transactions, one per txid.
PoolInv ==
    /\ Len(mempool) <= max_size
    /\ Cardinality({mempool[i].txid : i \in 1..Len(mempool)}) = Len(mempool)

\* C14: the mempool never holds more than max_size transactions nor two with
\* one txid, whatever the order of submissions, the miner's take and its
\* re-admissions; a submission that finds the pool full, or its txid pending,
\* is not added and leaves the pool as it was.
C14_MempoolBounded ==
    /\ []PoolInv
    /\ [][\A tx \in PoolInputs :
            ((Len(mempool) >= max_size \/ InPool(mempool, tx.txid))
             /\ NewTransaction(tx))
            => (op'.result # "added" /\ mempool' = mempool)]_vars

\* A submission rejected by a pool that is full after the miner re-admitted
\* what it had taken, behind a transaction submitted later than those.
C14_Witness ==
    /\ op = Done("new_transaction", "not_added")
    /\ Len(mempool) = max_size
    /\ mempool[Len(mempool)].nonce > 10
    /\ \E i \in 1..Len(mempool) : mempool[i].nonce <= 10

\* C15: the node's own address is in none of nodes, known_peers and
\* healthy_peers, whatever requests, discoveries, loads and forced checks the
\* node has served.
C15_NoSelfPeer == my_node_address \notin (nodes \cup known_peers \cup healthy_peers)

\* broadcast_history holds a record of message_id m.
Recorded(m) == \E r \in broadcast_history : r.id = m

\* broadcast_history holds a record of m that is not older than broadcast_ttl.
RecordedLately(m) ==
    \E r \in broadcast_history : r.id = m /\ now - r.timestamp <= broadcast_ttl

\* C16, as stated: a POST /nodes/sync whose message_id is recorded in
\* broadcast_history changes none of nodes, known_peers, broadcast_history and
\* the pending rebroadcasts.
C16_KnownIdNoChange ==
    [][\A l \in NodeLists, m \in MessageIds :
          (SyncNodes(l, m, Host("p1")) /\ Recorded(m))
          => UNCHANGED <<nodes, known_peers, broadcast_history, timers>>]_vars

\* C16, amended: a POST /nodes/sync whose message_id has a record not older
\* than broadcast_ttl adds no peer and schedules no rebroadcast, and
\* broadcast_history loses the records older than broadcast_ttl and nothing
\* else.
C16_RecentIdNoChange ==
    [][\A l \in NodeLists, m \in MessageIds :
          (SyncNodes(l, m, Host("p1")) /\ RecordedLately(m))
          => /\ UNCHANGED <<nodes, known_peers, timers>>
             /\ broadcast_history' =
                   {r \in broadcast_history : now - r.timestamp <= broadcast_ttl}]_vars

\* A repeated message_id was dropped, after time had passed, while a peer
\* was still unknown.
C16_Witness ==
    /\ op = Done("sync_nodes", "duplicate")
    /\ nodes # Peers
    /\ now >= Pace
    /\ \E r \in broadcast_history : r.timestamp = now

\* C17: the retries of every peer with a status record lie in 0..max_retries.
C17_RetriesBounded ==
    \A p \in Addrs : peer_status[p].present => peer_status[p].retries \in 0..max_retries

\* update_utxo_set over txs in order from the set u: whether every transfer
\* finds the balance it spends, and the set left.
RECURSIVE NoneSkipped(_, _)
NoneSkipped(u, txs) ==
    IF txs = <<>> THEN [ok |-> TRUE, utxos |-> u]
    ELSE IF Len(txs) = 1
    THEN [ok |-> txs[1].sender = "" \/ GetBalance(u, txs[1].sender) >= txs[1].amount,
          utxos |-> ApplyTx(u, txs[1])]
    ELSE LET h == Len(txs) \div 2
             first == NoneSkipped(u, SubSeq(txs, 1, h))
         IN IF ~first.ok THEN first
            ELSE NoneSkipped(first.utxos, SubSeq(txs, h + 1, Len(txs)))

\* C19: a block add_block appends has every transfer funded at the point
\* where update_utxo_set applies it, the transactions before it in the block
\* counted: none is skipped.
C19_FundedInOrder ==
    [][(Len(chain') = Len(chain) + 1 /\ op'.result \in {"added", "mined"})
       => NoneSkipped(utxos, chain'[Len(chain')].transactions).ok]_vars

\* Two snapshots of the UTXO set hold the same entries.
SameSnapshot(u, v) ==
    /\ Len(u) = Len(v)
    /\ {u[i] : i \in 1..Len(u)} = {v[i] : i \in 1..Len(v)}

\* C18: while no add_block and no chain replacement is in progress the UTXO
\* set is the replay of update_utxo_set over the chain from an empty set (what
\* rebuild_utxo_set computes, each time the same).
C18_UtxoIsReplay ==
    (ab_pc = "idle" /\ rpc # "assigned")
    => SameSnapshot(utxos, RebuildUtxoSet(chain))

\* C20: add_block between its append and its release of chain_lock, and the
\* resolver between its chain assignment and the end of its rebuild, are never
\* under way together.
C20_MutualExclusion == ~(ab_pc = "appended" /\ rpc = "assigned")

\* C21: a balance query that runs while update_utxo_set is applying a transfer
\* returns the balance either of the UTXO set as it was before the transfer or
\* of the set with the transfer applied in full.
C21_NoPartialSpend ==
    [][\A address \in {"A", "B"} :
         (u_pc \in {"spend", "recipient", "change"} /\ BalanceQuery(address))
         => q_balance'[2] \in { GetBalance(u_before, address),
                                GetBalance(ApplyTx(u_before, UpdateTx), address) }]_vars

\* C22: when a mine() call fails, on the bundle or at add_block, every
\* transfer it took from the mempool is in the mempool again, its coinbase is
\* not, and the call leaves the chain and the UTXO set as they were.
C22_FailedMineRestores ==
    [][(m_pc # "idle" /\ m_pc' = "idle" /\ op'.name = "mine" /\ op'.result # "mined")
       => /\ \A i \in 2..Len(m_txs) :
               m_txs[i].sender # "" => InPool(mempool', m_txs[i].txid)
          /\ ~InPool(mempool', m_txs[1].txid)
          /\ chain' = chain
          /\ utxos' = utxos]_vars

\* A step that appended a block with add_block.
Appended ==
    /\ Len(chain') = Len(chain) + 1
    /\ op'.name \in {"mine", "receive_block"}

\* What the retarget rule makes of difficulty d on a chain c whose tip has just
\* been appended, the interval being measured from the block `back` behind the tip.
Retargeted(c, d, back) ==
    LET L == Len(c)
        elapsed == c[L].timestamp - c[L - back].timestamp
    IN IF elapsed < 25 THEN d + 1
       ELSE IF elapsed > 100 /\ d > 1 THEN d - 1
       ELSE d

\* C23 as stated: after a successful add_block that makes the chain length L a
\* multiple of 5, difficulty is retargeted on the time between the tip and the
\* block 5 behind the tip (where the chain has one); every other step leaves
\* difficulty unchanged, and difficulty is never below 1.
C23_RetargetFiveBehind ==
    /\ [](difficulty >= 1)
    /\ [][IF Appended /\ Len(chain') % 5 = 0
          THEN Len(chain') > 5 => difficulty' = Retargeted(chain', difficulty, 5)
          ELSE difficulty' = difficulty]_vars

\* C23, amended: the interval runs from the block 4 behind the tip, chain[L-5]
\* counting from 0, the oldest of the last 5 blocks.
C23_RetargetFourBehind ==
    /\ [](difficulty >= 1)
    /\ [][IF Appended /\ Len(chain') % 5 = 0
          THEN difficulty' = Retargeted(chain', difficulty, 4)
          ELSE difficulty' = difficulty]_vars

\* Ten blocks, the difficulty lowered at the fifth and held at 1 at the tenth.
C23_Witness ==
    /\ Len(chain) = 2 * DIFFICULTY_ADJUSTMENT_INTERVAL
    /\ difficulty = 1
    /\ chain[10].timestamp - chain[6].timestamp > 100
    /\ op = Done("mine", "mined")

\* The txids of a list of transactions.
TxidsOf(txs) == {txs[i].txid : i \in 1..Len(txs)}

\* C24: get_transactions_for_block(n) returns min(n, size) transactions, those
\* of the smallest timestamps, in ascending order of timestamp, and removes
\* from the pool the transactions it returns and no other: every transaction
\* added is either still in the pool, in its place, or in what was returned, once.
C24_TakeOldest ==
    [][\A n \in 0..MaxTake : PoolTake(n) =>
         /\ Len(g_taken') = (IF n < Len(mempool) THEN n ELSE Len(mempool))
         /\ \A i, j \in 1..Len(g_taken') :
              i < j => g_taken'[i].timestamp <= g_taken'[j].timestamp
         /\ \A i \in 1..Len(g_taken'), k \in 1..Len(mempool') :
              g_taken'[i].timestamp <= mempool'[k].timestamp
         /\ Cardinality(TxidsOf(g_taken')) = Len(g_taken')
         /\ \A i \in 1..Len(g_taken') : \E k \in 1..Len(mempool) : mempool[k] = g_taken'[i]
         /\ mempool' = SelectSeq(mempool, LAMBDA tx : tx.txid \notin TxidsOf(g_taken'))]_vars

\* One transaction taken out of a pool of four: it was not the first to
\* arrive, and one with its timestamp stays behind.
C24_Witness ==
    /\ op = Done("get_transactions_for_block", "returned")
    /\ Len(g_taken) = 1
    /\ Len(mempool) = 3
    /\ mempool[1].timestamp > g_taken[1].timestamp
    /\ \E k \in 1..3 : mempool[k].timestamp = g_taken[1].timestamp

\* The entry of a UTXO set under a key.
EntryAt(u, key) == u[KeyIndex(u, key)]

\* The unspent entries of an address, as a set.
UnspentOf(u, address) ==
    {u[i] : i \in {j \in 1..Len(u) : u[j].address = address /\ ~u[j].spent}}

\* The sum of the amounts of a set of entries with distinct keys.
RECURSIVE SumOf(_)
SumOf(es) ==
    IF es = {} THEN 0
    ELSE LET e == CHOOSE x \in es : TRUE IN e.amount + SumOf(es \ {e})

\* C25: the application of a transfer of amount a from S, who can fund it, to
\* a recipient spends the smallest of S's unspent entries, as few as reach a
\* total T >= a, writes the entry txid -> (recipient, a) and, if and only if
\* T > a, the entry txid_change -> (S, T - a); S's balance falls by a and the
\* recipient's rises by a.
C25_TransferApplied ==
    [][(u_pc \in {"recipient", "change"} /\ u_pc' = "loop") =>
         LET tx == UpdateTx
             a == tx.amount
             had == UnspentOf(u_before, tx.sender)
             gone == {e \in had : EntryAt(utxos', e.key).spent}
             T == SumOf(gone)
         IN /\ \A e \in gone, f \in had \ gone : e.amount <= f.amount
            /\ T >= a
            /\ \A e \in gone : (\A f \in gone : f.amount <= e.amount) => T - e.amount < a
            /\ HasKey(utxos', tx.txid)
            /\ EntryAt(utxos', tx.txid) =
                 [key |-> tx.txid, address |-> tx.recipient, amount |-> a, spent |-> FALSE]
            /\ IF T > a
               THEN /\ HasKey(utxos', ChangeKey(tx.txid))
                    /\ EntryAt(utxos', ChangeKey(tx.txid)) =
                         [key |-> ChangeKey(tx.txid), address |-> tx.sender,
                          amount |-> T - a, spent |-> FALSE]
               ELSE ~HasKey(utxos', ChangeKey(tx.txid))
            /\ tx.sender # tx.recipient =>
                 /\ GetBalance(utxos', tx.sender) = GetBalance(u_before, tx.sender) - a
                 /\ GetBalance(utxos', tx.recipient)
                      = GetBalance(u_before, tx.recipient) + a]_vars

\* C27: a forced check of a peer that answers resets the peer's retries and
\* has it healthy; one that fails adds one to its retries; and a peer leaves
\* healthy_peers only with max_retries failures in a row on its record.
C27_ForcedCheckCounts ==
    [][\A p \in Addrs :
         /\ ForceCheckPeer(p, TRUE) =>
              peer_status'[p].retries = 0 /\ p \in healthy_peers'
         /\ ForceCheckPeer(p, FALSE) =>
              peer_status'[p].retries = peer_status[p].retries + 1
         /\ (p \in healthy_peers /\ p \notin healthy_peers') =>
              peer_status'[p].retries >= max_retries]_vars

\* C26: /block/receive with local tip index t. A block of index t + 1 goes to
\* add_block and, accepted, is the new tip, with its transfers out of the
\* mempool; rejected, it leaves the chain alone. A block of index > t + 1 is
\* not appended and starts resolve_conflicts. A block of index <= t changes
\* neither chain, UTXO set, mempool nor difficulty, and nothing is relayed.
C26_ReceiveByIndex ==
    [][\A b \in GossipBlocks, source_addr \in GossipHosts :
         (op'.name = "receive_block" /\ healthy_peers' = healthy_peers
          /\ ReceiveBlock(b, source_addr)) =>
           LET t == Len(chain) - 1
           IN IF b.index = t + 1
              THEN IF op'.result = "added"
                   THEN /\ chain' = Append(chain, b)
                        /\ \A i \in 1..Len(b.transactions) :
                             b.transactions[i].sender # ""
                             => ~InPool(mempool', b.transactions[i].txid)
                   ELSE chain' = chain
              ELSE IF b.index > t + 1
              THEN chain' = chain /\ rpc' = "poll"
              ELSE /\ chain' = chain
                   /\ utxos' = utxos
                   /\ mempool' = mempool
                   /\ difficulty' = difficulty
                   /\ outbox' = {}]_vars

\* A received block that confirmed a transfer has been appended and relayed.
C26_Witness ==
    /\ op = Done("receive_block", "added")
    /\ Len(chain) = 2
    /\ Len(chain[2].transactions) = 2
    /\ mempool = <<>>
    /\ outbox # {}

\* C28: the peer p1 posts peer lists to /nodes/register and /nodes/sync. Neither
\* the fan-out that follows a registration nor the one a timer runs after a
\* sync posts anything to p1.
C28_NothingBackToSource ==
    [][/\ \A l \in NodeLists :
            RegisterNodes(l, Host("p1")) => \A m \in outbox' : m.to # "p1"
       /\ TimerFires => \A m \in outbox' : m.to # "p1"]_vars

\* The peers posted to.
Targets(posts) == {m.to : m \in posts}

\* C29: transactions and blocks arrive from the peers p1 and p3. A transaction
\* newly admitted, or a block appended, is posted to every healthy peer other
\* than the peer it came from.
C29_RelayToAllOthers ==
    [][\A p \in {"p1", "p3"} :
         /\ \A tx \in {T1, TForged} :
              (op'.name = "receive_transaction" /\ op'.result = "added"
               /\ ReceiveTransaction(tx, Host(p)))
              => Targets(outbox') = healthy_peers \ {p}
         /\ \A b \in GossipBlocks :
              (op'.name = "receive_block" /\ op'.result = "added"
               /\ healthy_peers' = healthy_peers /\ ReceiveBlock(b, Host(p)))
              => Targets(outbox') = healthy_peers \ {p}]_vars


\* ---------------------------------------------------------------------------
\* can_broadcast_now, step by step: request threads and Timer threads share
\* network_manager.broadcast_stats and nothing serialises them.

\* A Timer thread enters safe_broadcast_nodes_list: can_broadcast_now takes
\* current_time, resets the window if it is due and reads both limits.
LimitCheck ==
    /\ timers > 0
    /\ b_pc = "idle"
    /\ LET s1 == IF now - broadcast_stats.last_reset > 60
                 THEN [broadcast_stats EXCEPT !.broadcast_count = 0, !.last_reset = now]
                 ELSE broadcast_stats
           open == /\ s1.broadcast_count < max_broadcasts_per_minute
                   /\ now - s1.last_broadcast >= 1
       IN /\ broadcast_stats' = s1
          /\ IF open
             THEN /\ b_pc' = "checked"
                  /\ b_time' = now
                  /\ UNCHANGED <<timers, op, outbox>>
             ELSE /\ timers' = timers - 1
                  /\ op' = Done("safe_broadcast_nodes_list", "limited")
                  /\ outbox' = {}
                  /\ UNCHANGED limiter
    /\ UNCHANGED <<applier, q_balance, g_taken, automine, network, chain, utxos, mempool, difficulty, now,
                   healthy_peers, resolver, miner, adder, nodes, known_peers, peer_status,
                   broadcast_history>>

\* The same thread writes the counters, returns True and the list is posted.
LimitCommit ==
    /\ b_pc = "checked"
    /\ broadcast_stats' = [broadcast_stats EXCEPT !.broadcast_count = @ + 1,
                                                  !.last_broadcast = b_time]
    /\ outbox' = Posts(NodesListTargets(healthy_peers, ""), "/nodes/sync")
    /\ op' = Done("safe_broadcast_nodes_list", "sent")
    /\ timers' = timers - 1
    /\ b_pc' = "idle"
    /\ b_time' = 0
    /\ UNCHANGED <<applier, q_balance, g_taken, automine, network, chain, utxos, mempool, difficulty, now,
                   healthy_peers, resolver, miner, adder, nodes, known_peers, peer_status,
                   broadcast_history>>

LimitPassStep == now + 1 <= MaxLimitClock /\ Pass(1)

LimitCheckStep == \E up \in BOOLEAN : ForceCheckPeer("p1", up)

\* A Timer thread beside the request threads of /nodes/register and /nodes/sync.
NextLimit ==
    \/ \E l \in NodeLists : RegisterNodes(l, Host("p1"))
    \/ SyncStep
    \/ LimitCheck
    \/ LimitCommit
    \/ LimitCheckStep
    \/ LimitPassStep

SpecLimit == Init /\ [][NextLimit]_vars

\* A call of register_nodes that got past can_broadcast_now and posted the list.
RegisterBroadcast ==
    /\ \E l \in NodeLists : RegisterNodes(l, Host("p1"))
    /\ broadcast_stats' # broadcast_stats
    /\ broadcast_stats'.broadcast_count >= 1
    /\ broadcast_stats'.last_broadcast = now

\* C30: a peer-list broadcast of safe_broadcast_nodes_list, by a request thread or
\* by a Timer thread running beside it, comes at least 1 s after the broadcast
\* before it.
C30_BroadcastsSpaced ==
    [][(RegisterBroadcast \/ LimitCommit) => now - broadcast_stats.last_broadcast >= 1]_vars

\* ---------------------------------------------------------------------------
\* The mining loop and the switches of its mode.

\* start_auto_mining_if_needed, up to the test of auto_mining_started: the
\* number of callers that stand between the test and the assignment once one
\* more caller has run it with the flag at `enabled`. default_wallet is loaded.
StartTest(enabled) ==
    IF ~auto_mining_started /\ chain # <<>> /\ enabled THEN s_checked + 1 ELSE s_checked

\* POST /mining/mode with body {"mode": mode}.
SetMiningMode(mode) ==
    /\ IF mode \notin {"continuous", "transaction_driven", "disabled"}
       THEN /\ op' = Done("set_mining_mode_api", "400")
            /\ UNCHANGED <<auto_mining_enabled, mining_mode, s_checked>>
       ELSE /\ auto_mining_enabled' = (mode # "disabled")
            /\ mining_mode' = mode
            /\ s_checked' = IF mode # "disabled" /\ ~auto_mining_started
                            THEN StartTest(mode # "disabled") ELSE s_checked
            /\ op' = Done("set_mining_mode_api", mode)
    /\ UNCHANGED <<applier, q_balance, g_taken, outbox, limiter, network, auto_mining_started,
                   last_block_time, mining_workers, p_pc, chain, utxos, mempool, difficulty,
                   now, healthy_peers, resolver, miner, adder, registry>>

\* POST /auto_mining with body {"enable": enable}; "none" is a body without
\* the field, which toggles the flag. /mining/status names an enabled loop
\* "continuous".
ToggleAutoMining(enable) ==
    /\ LET new_state == IF enable = "none" THEN ~auto_mining_enabled ELSE enable = "true"
       IN /\ auto_mining_enabled' = new_state
          /\ mining_mode' = IF new_state THEN "continuous" ELSE "disabled"
          /\ s_checked' = IF new_state /\ ~auto_mining_started
                          THEN StartTest(new_state) ELSE s_checked
          /\ op' = Done("toggle_auto_mining_api", IF new_state THEN "enabled" ELSE "disabled")
    /\ UNCHANGED <<applier, q_balance, g_taken, outbox, limiter, network, auto_mining_started,
                   last_block_time, mining_workers, p_pc, chain, utxos, mempool, difficulty,
                   now, healthy_peers, resolver, miner, adder, registry>>

\* A caller of start_auto_mining_if_needed past the test sets
\* auto_mining_started and starts the AutoMining thread, which takes
\* last_block_time = time.time().
StartThread ==
    /\ s_checked > 0
    /\ s_checked' = s_checked - 1
    /\ auto_mining_started' = TRUE
    /\ mining_workers' = mining_workers + 1
    /\ last_block_time' = now
    /\ op' = Done("start_auto_mining_if_needed", "started")
    /\ UNCHANGED <<applier, q_balance, g_taken, outbox, limiter, network, auto_mining_enabled,
                   mining_mode, p_pc, chain, utxos, mempool, difficulty, now, healthy_peers,
                   resolver, miner, adder, registry>>

\* The wallet address the AutoMining thread mines to.
miner_wallet_address == "A"

\* One iteration of the loop of auto_mining; a block it mines is stamped one
\* second after current_time. r is what blockchain.mine does and returns.
AutoMining ==
    /\ mining_workers > 0
    /\ difficulty <= MaxZeros
    /\ LET mempool_size == Len(mempool)
           current_time == now
           time_since_last_block == current_time - last_block_time
       IN IF ~auto_mining_enabled
          THEN /\ op' = Done("auto_mining", "disabled")
               /\ outbox' = {}
               /\ UNCHANGED <<chain, utxos, mempool, difficulty, now, last_block_time>>
          ELSE IF mempool_size > 0 \/ time_since_last_block > 30
          THEN \E r \in {MineResult(chain, utxos, mempool, difficulty, miner_wallet_address,
                                    current_time + 1)} :
               /\ chain' = r.chain
               /\ utxos' = r.utxos
               /\ mempool' = r.mempool
               /\ difficulty' = r.difficulty
               /\ now' = IF r.result = "mined" THEN current_time + 1 ELSE now
               /\ last_block_time' = IF r.result = "mined" THEN current_time
                                     ELSE last_block_time
               /\ outbox' = IF r.result = "mined"
                            THEN Posts(healthy_peers, "/block/receive") ELSE {}
               /\ op' = Done("auto_mining", r.result)
          ELSE /\ op' = Done("auto_mining", "wait")
               /\ outbox' = {}
               /\ UNCHANGED <<chain, utxos, mempool, difficulty, now, last_block_time>>
    /\ UNCHANGED <<applier, q_balance, g_taken, limiter, auto_mining_enabled,
                   auto_mining_started, mining_mode, s_checked, mining_workers, p_pc, network,
                   healthy_peers, resolver, miner, adder, registry>>

\* The bodies posted to /mining/mode and /auto_mining.
Modes == {"continuous", "transaction_driven", "disabled", "fast"}

Enables == {"none", "true", "false"}

T2b == SignedTx("B", "A", 30, 1, 1)

\* Blocks of a peer on the local tip: its coinbase alone, and with a transfer
\* of all that A holds after one block.
MiningBlocks ==
    LET t == now + 1
        n == Len(chain)
        tip == IF chain = <<>> THEN ZeroHash ELSE chain[n].hash
    IN { MinedBlock(n, t, <<PeerCoinbase(t)>>, tip, difficulty),
         MinedBlock(n, t, <<PeerCoinbase(t), TAll>>, tip, difficulty) }

MiningModeStep == s_checked < MaxCallers /\ \E mode \in Modes : SetMiningMode(mode)

MiningToggleStep == s_checked < MaxCallers /\ \E enable \in Enables : ToggleAutoMining(enable)

MiningLoopStep == Len(chain) < MaxMineChain /\ now < MaxMineClock /\ AutoMining

MiningSubmitStep == Len(mempool) < MaxMinePool /\ \E tx \in {T1, T2b} : NewTransaction(tx)

MiningReceiveStep ==
    /\ Len(chain) < MaxMineChain
    /\ now < MaxMineClock
    /\ difficulty <= MaxZeros
    /\ \E b \in MiningBlocks : ReceiveBlock(b, Host("p1"))

\* More than the 30 s after which the loop mines without transactions.
LongPause == 31

MiningPassStep == now + LongPause <= MaxMineClock /\ Pass(LongPause)

\* A node whose mining loop is switched by its operators.
NextMining ==
    \/ CreateGenesis
    \/ MiningModeStep
    \/ MiningToggleStep
    \/ StartThread
    \/ MiningLoopStep
    \/ MiningSubmitStep
    \/ MiningReceiveStep
    \/ MiningPassStep

SpecMining == Init /\ [][NextMining]_vars

\* The block at the tip holds nothing but its coinbase.
CoinbaseOnlyTip(c) == c # <<>> /\ Len(c[Len(c)].transactions) = 1

\* C31: an iteration of the mining loop in transaction-driven mode appends a
\* block only when the mempool holds a transaction, and never a coinbase-only
\* block; a coinbase-only block is mined only in continuous mode with an empty
\* mempool; in disabled mode the iteration leaves mempool and chain alone.
C31_ModesRespected ==
    [][AutoMining =>
         /\ mining_mode = "transaction_driven"
              => (chain' # chain => mempool # <<>> /\ ~CoinbaseOnlyTip(chain'))
         /\ (chain' # chain /\ CoinbaseOnlyTip(chain'))
              => (mining_mode = "continuous" /\ mempool = <<>>)
         /\ mining_mode = "disabled" => UNCHANGED <<chain, mempool>>]_vars

\* C32: however the calls of /auto_mining, /mining/mode and
\* start_auto_mining_if_needed interleave, at most one AutoMining thread is
\* ever started.
C32_OneWorker == mining_workers <= 1

\* ---------------------------------------------------------------------------
\* periodic_sync: the thread that calls resolve_conflicts every minute.

\* The thread wakes from time.sleep(60) and, with a healthy peer, enters
\* resolve_conflicts.
PeriodicWake ==
    /\ p_pc = "sleep"
    /\ rpc = "idle"
    /\ IF healthy_peers # {}
       THEN /\ BeginResolve
            /\ p_pc' = "resolving"
       ELSE UNCHANGED <<resolver, p_pc>>
    /\ op' = Done("periodic_sync", IF healthy_peers # {} THEN "resolve" ELSE "skip")
    /\ UNCHANGED <<applier, q_balance, g_taken, outbox, limiter, network, auto_mining_enabled,
                   auto_mining_started, mining_mode, last_block_time, s_checked,
                   mining_workers, chain, utxos, mempool, difficulty, now, healthy_peers,
                   miner, adder, registry>>

\* The set iterator of resolve_conflicts finds healthy_peers changed in size:
\* RuntimeError leaves resolve_conflicts and, uncaught, periodic_sync.
PeriodicAbort ==
    /\ p_pc = "resolving"
    /\ rpc = "poll"
    /\ Cardinality(healthy_peers) # r_size
    /\ rpc' = "idle"
    /\ p_pc' = "dead"
    /\ op' = Done("periodic_sync", "exception")
    /\ UNCHANGED <<applier, q_balance, g_taken, outbox, limiter, network, auto_mining_enabled,
                   auto_mining_started, mining_mode, last_block_time, s_checked,
                   mining_workers, chain, utxos, mempool, difficulty, now, healthy_peers,
                   miner, adder, registry, r_max_length, r_new_chain, r_todo, r_size, r_best>>

\* resolve_conflicts returns to periodic_sync, which sleeps again.
PeriodicFinish ==
    /\ p_pc = "resolving"
    /\ rpc = "poll"
    /\ Cardinality(healthy_peers) = r_size
    /\ r_todo = {}
    /\ rpc' = "idle"
    /\ p_pc' = "sleep"
    /\ IF r_new_chain # <<>>
       THEN /\ chain' = r_new_chain
            /\ utxos' = RebuildUtxoSet(r_new_chain)
            /\ op' = Done("resolve_conflicts", "replaced")
       ELSE /\ op' = Done("resolve_conflicts", "kept")
            /\ UNCHANGED <<chain, utxos>>
    /\ UNCHANGED <<applier, q_balance, g_taken, outbox, limiter, network, auto_mining_enabled,
                   auto_mining_started, mining_mode, last_block_time, s_checked,
                   mining_workers, mempool, difficulty, now, healthy_peers, miner, adder,
                   registry, r_max_length, r_new_chain, r_todo, r_size, r_best>>

LoopsPollStep ==
    /\ p_pc = "resolving"
    /\ \E p \in Peers : \/ \E resp \in PeerResponses : ResolvePoll(p, resp)
                        \/ ResolvePollFail(p)

LoopsRegisterStep == RegisterNodes(<<"p1">>, Host("p1"))

LoopsCheckStep == \E p \in Peers, up \in BOOLEAN : ForceCheckPeer(p, up)

\* The background loops of one node beside its request handlers.
NextLoops ==
    \/ CreateGenesis
    \/ LoopsRegisterStep
    \/ LoopsCheckStep
    \/ HealthStep
    \/ PeriodicWake
    \/ LoopsPollStep
    \/ PeriodicAbort
    \/ PeriodicFinish

SpecLoops == Init /\ [][NextLoops]_vars

\* C33: the periodic resolver loop never ends: whatever fails inside a run of
\* resolve_conflicts, periodic_sync goes on to its next sleep.
C33_LoopsSurvive == p_pc # "dead"

\* The places of the chain: block i, transaction k.
Places(c) == UNION {{<<i, k>> : k \in 1..Len(c[i].transactions)} : i \in 1..Len(c)}

\* C34: no txid stands at two places of the chain, and no transaction of the
\* mempool is already in a block of the chain.
C34_ConfirmedOnce ==
    /\ \A pl, ql \in Places(chain) :
         pl # ql => chain[pl[1]].transactions[pl[2]].txid # chain[ql[1]].transactions[ql[2]].txid
    /\ \A n \in 1..Len(mempool) : \A pl \in Places(chain) :
         mempool[n].txid # chain[pl[1]].transactions[pl[2]].txid

\* ---------------------------------------------------------------------------
\* Transactions without a sender.

\* A dict shaped like a coinbase, made by a client: every required field is
\* there, the sender is empty.
TMint == [CoinbaseTx(<<"mint">>, "B", 0) EXCEPT !.amount = 1000]

CoinInputs == {T1, TMint}

CoinSubmitStep == Len(mempool) < MaxCoinPool /\ \E tx \in CoinInputs : NewTransaction(tx)

CoinGossipStep ==
    /\ Len(mempool) < MaxCoinPool
    /\ \E tx \in CoinInputs, source_addr \in GossipHosts : ReceiveTransaction(tx, source_addr)

CoinMineStep == Len(chain) < MaxCoinChain /\ now < MaxTime /\ Mine("A", 1)

CoinCheckStep == \E up \in BOOLEAN : ForceCheckPeer("p3", up)

\* A node that clients and peers send transactions to.
NextCoin ==
    \/ CoinSubmitStep
    \/ CoinGossipStep
    \/ CoinMineStep
    \/ CoinCheckStep

SpecCoin == Init /\ [][NextCoin]_vars

\* C35: no transaction of the mempool has an empty sender, and a gossiped
\* transaction with an empty sender is forwarded to no peer.
C35_NoCoinbasePending ==
    /\ [](\A n \in 1..Len(mempool) : mempool[n].sender # "")
    /\ [][\A tx \in CoinInputs, source_addr \in GossipHosts :
            (tx.sender = "" /\ ReceiveTransaction(tx, source_addr)) => outbox' = {}]_vars

\* ---------------------------------------------------------------------------
\* Two nodes on one chain.

\* The difficulty of a node that appended the blocks of c one by one, starting
\* from the initial difficulty.
RECURSIVE DifficultyAfter(_, _)
DifficultyAfter(c, n) ==
    IF n = 0 THEN InitialDifficulty
    ELSE AdjustDifficulty(SubSeq(c, 1, n), DifficultyAfter(c, n - 1))

DifficultyOf(c) == DifficultyAfter(c, Len(c))

\* The chain of a peer that mined n - 1 blocks on G0, one each second.
RECURSIVE PeerChain(_)
PeerChain(n) ==
    IF n = 1 THEN <<G0>>
    ELSE LET c == PeerChain(n - 1)
         IN Append(c, MinedBlock(n - 1, n - 1, <<PeerCoinbase(n - 1)>>, c[n - 1].hash,
                                 DifficultyOf(c)))

\* What the peer answers on GET /chain as it grows.
DiffResponses == {[length |-> n, chain |-> PeerChain(n)] : n \in 2..MaxDiffChain}

DiffMineStep == Len(chain) < MaxDiffChain + 1 /\ now < MaxDiffChain + 1 /\ Mine("A", 1)

DiffPollStep == \E resp \in DiffResponses : ResolvePoll("p1", resp)

DiffCheckStep == \E up \in BOOLEAN : ForceCheckPeer("p1", up)

\* A node that mines and resolves against a peer with a longer chain.
NextDiff ==
    \/ CreateGenesis
    \/ DiffMineStep
    \/ DiffCheckStep
    \/ ResolveStart
    \/ DiffPollStep
    \/ ResolveAbort
    \/ ResolveFinish

SpecDiff == Init /\ [][NextDiff]_vars

\* C36: the difficulty of a node is the difficulty of any node that holds the
\* same chain: the one that results from appending its blocks one by one.
C36_DifficultyOfChain == difficulty = DifficultyOf(chain)

\* C37: every healthy peer is a known peer, and the known peers are the nodes.
C37_HealthyAreKnown == healthy_peers \subseteq known_peers /\ known_peers = nodes

\* ---------------------------------------------------------------------------
\* A mempool transaction that stopped being valid.

StallModeStep ==
    s_checked < 1 /\ \E mode \in {"continuous", "disabled"} : SetMiningMode(mode)

\* auto_mining, step by step: an iteration begins. Disabled, or with nothing to
\* do, the loop sleeps; otherwise it enters blockchain.mine, which takes the
\* transactions of the mempool.
LoopBegin ==
    /\ mining_workers > 0
    /\ m_pc = "idle"
    /\ LET mempool_size == Len(mempool)
           time_since_last_block == now - last_block_time
           got == GetTransactionsForBlock(mempool, MAX_TXS_PER_BLOCK)
           t == now + 1
       IN IF ~auto_mining_enabled
          THEN /\ op' = Done("auto_mining", "disabled")
               /\ UNCHANGED <<mempool, miner>>
          ELSE IF mempool_size > 0 \/ time_since_last_block > 30
          THEN /\ mempool' = got.pool
               /\ m_txs' = <<CoinbaseTx(CoinbaseTxid(t), miner_wallet_address, t)>> \o got.taken
               /\ m_pc' = "taken"
               /\ op' = Done("auto_mining", "mine")
               /\ UNCHANGED m_block
          ELSE /\ op' = Done("auto_mining", "wait")
               /\ UNCHANGED <<mempool, miner>>
    /\ UNCHANGED <<workers, chain, utxos, difficulty, now, healthy_peers, resolver, adder,
                   registry>>

\* blockchain.mine ends with add_block and returns to the loop, which notes
\* the time it took at the start of the iteration and broadcasts the block.
LoopFinish ==
    /\ m_pc = "built"
    /\ ab_pc = "idle"
    /\ \E r \in {AddBlockResult(chain, utxos, difficulty, m_block[1].block, m_block[1].proof)} :
       LET mined == m_block[1].block
           current_time == mined.timestamp - 1
       IN /\ chain' = r.chain
          /\ utxos' = r.utxos
          /\ difficulty' = r.difficulty
          /\ mempool' = IF r.ok THEN RemoveConfirmedTransactions(mempool, mined)
                        ELSE ReAdmit(mempool, Tail(m_txs))
          /\ now' = IF r.ok /\ mined.timestamp > now THEN mined.timestamp ELSE now
          /\ last_block_time' = IF r.ok THEN current_time ELSE last_block_time
          /\ outbox' = IF r.ok THEN Posts(healthy_peers, "/block/receive") ELSE {}
          /\ op' = Done("auto_mining", IF r.ok THEN "mined" ELSE "rejected")
    /\ m_pc' = "idle"
    /\ m_txs' = <<>>
    /\ m_block' = <<>>
    /\ UNCHANGED <<applier, q_balance, g_taken, limiter, auto_mining_enabled,
                   auto_mining_started, mining_mode, s_checked, mining_workers, p_pc, network,
                   healthy_peers, resolver, adder, registry>>

StallLoopStep == Len(chain) < MaxStallChain /\ now < MaxStallClock /\ LoopBegin

StallSubmitStep == Len(mempool) < MaxMinePool /\ \E tx \in {T1, T2b} : NewTransaction(tx)

\* A peer's block on the local tip that spends all that A holds after one block.
StallReceiveStep ==
    /\ Len(chain) < MaxStallChain
    /\ now < MaxStallClock
    /\ difficulty <= MaxZeros
    /\ LET t == now + 1
           n == Len(chain)
       IN /\ chain # <<>>
          /\ ReceiveBlock(MinedBlock(n, t, <<PeerCoinbase(t), TAll>>, chain[n].hash, difficulty),
                          Host("p1"))

StallPassStep == now + LongPause <= MaxStallClock /\ Pass(LongPause)

NextStall ==
    \/ CreateGenesis
    \/ StallModeStep
    \/ StartThread
    \/ StallLoopStep
    \/ MineBuild
    \/ LoopFinish
    \/ StallSubmitStep
    \/ StallReceiveStep
    \/ StallPassStep

SpecStall == Init /\ [][NextStall]_vars

\* The mining loop never stops iterating.
\* The loop is a thread that keeps running: an iteration that can begin does,
\* a bundle taken is validated, and a block built is added (LoopFinish is
\* enabled in every state of m_pc = "built" and is the only step that leaves it).
SpecStallFair ==
    SpecStall /\ WF_vars(StallLoopStep) /\ WF_vars(MineBuild) /\ []<>(m_pc # "built")

\* tx waits in the mempool, or in the bundle that mine() took out of it and has
\* not yet confirmed or put back.
Waiting(tx) ==
    \/ InPool(mempool, tx.txid)
    \/ \E i \in 2..Len(m_txs) : m_txs[i].txid = tx.txid

\* tx waits at a node whose mining loop is on, and is valid against the UTXO
\* set as it is.
ValidPending(tx) ==
    /\ Waiting(tx)
    /\ ValidateTransaction(tx, utxos).ok
    /\ auto_mining_enabled
    /\ mining_workers > 0

Confirmed(tx) == \E pl \in Places(chain) : chain[pl[1]].transactions[pl[2]].txid = tx.txid

\* The chain or the clock stands at the end of the window looked at.
WindowEnds == Len(chain) >= MaxStallChain \/ now >= MaxStallClock

\* C38: with the mining loop on and fairly scheduled, a mempool transaction that
\* is valid against the current UTXO set gets into an appended block, unless it
\* stops being valid or the loop is switched off first.
C38_ValidPendingMined ==
    \A tx \in {T1, T2b} :
        ValidPending(tx) ~> (Confirmed(tx) \/ ~ValidPending(tx) \/ WindowEnds)


\* ---------------------------------------------------------------------------
\* The peer lists of a network: the node of the code runs at every address
\* of Addrs, and what one posts to /nodes/sync the node at the target handles.

\* All that belongs to the single node looked at above.
local ==
    <<applier, q_balance, g_taken, outbox, limiter, automine, chain, utxos, mempool, difficulty,
      healthy_peers, resolver, op, miner, adder, registry>>

\* `for node in nodes_list: if add_node(node): newly_added.append(node)` at the
\* node of address me; add_node refuses me and what nodes holds. The body is a
\* list(nodes): neither result depends on its order.
AddAllAt(me, ns, nodes_list) ==
    [nodes |-> ns \cup (nodes_list \ {me}), newly_added |-> (nodes_list \ ns) \ {me}]

\* safe_broadcast_nodes_list at the node n whose set nodes is ns: the stats it
\* leaves and the requests it posts. The message id is the md5 of the time
\* and the address.
SafeBroadcastNodesList(n, ns, source_addr) ==
    LET c == CanBroadcastNow(net_stats[n], now)
        message_id == <<"nodes_sync", now, n>>
    IN [stats |-> c.stats,
        posts |-> IF c.ok
                  THEN {[to |-> p, nodes |-> ns, message_id |-> message_id, source_node |-> n] :
                          p \in NodesListTargets(net_healthy[n], source_addr)}
                  ELSE {}]

\* POST /nodes/register at the node n, from outside the network.
NetRegister(n, nodes_list, source_addr) ==
    /\ nodes_list # {}
    /\ LET r == AddAllAt(n, net_nodes[n], nodes_list)
           b == SafeBroadcastNodesList(n, r.nodes, source_addr)
       IN /\ net_nodes' = [net_nodes EXCEPT ![n] = r.nodes]
          /\ IF r.newly_added # {}
             THEN /\ net_stats' = [net_stats EXCEPT ![n] = b.stats]
                  /\ net_inbox' = net_inbox \cup b.posts
                  /\ net_sent' = net_sent + Cardinality(b.posts)
             ELSE UNCHANGED <<net_stats, net_inbox, net_sent>>
    /\ UNCHANGED <<net_healthy, net_timers, net_history, now, local>>

\* that sync_nodes starts a Timer whenever it went through the body, new peers
\* or none
NetSyncAlways(m) ==
    /\ m \in net_inbox
    /\ net_inbox' = net_inbox \ {m}
    /\ LET n == m.to
           cb == CanBroadcast(net_history[n], m.message_id, Host(m.source_node), now)
           r == AddAllAt(n, net_nodes[n], m.nodes)
       IN /\ net_history' = [net_history EXCEPT ![n] = cb.history]
          /\ IF ~cb.ok \/ m.nodes = {}
             THEN UNCHANGED <<net_nodes, net_timers>>
             ELSE /\ net_nodes' = [net_nodes EXCEPT ![n] = r.nodes]
                  /\ net_timers' = [net_timers EXCEPT ![n] = @ + 1]
    /\ UNCHANGED <<net_healthy, net_stats, net_sent, now, local>>

\* POST /nodes/sync: the node m.to handles the request m.
NetSync(m) ==
    /\ m \in net_inbox
    /\ net_inbox' = net_inbox \ {m}
    /\ LET n == m.to
           cb == CanBroadcast(net_history[n], m.message_id, Host(m.source_node), now)
           r == AddAllAt(n, net_nodes[n], m.nodes)
       IN /\ net_history' = [net_history EXCEPT ![n] = cb.history]
          /\ IF ~cb.ok \/ m.nodes = {}
             THEN UNCHANGED <<net_nodes, net_timers>>
             ELSE /\ net_nodes' = [net_nodes EXCEPT ![n] = r.nodes]
                  /\ net_timers' = [net_timers EXCEPT ![n] =
                                      IF r.newly_added # {} THEN @ + 1 ELSE @]
    /\ UNCHANGED <<net_healthy, net_stats, net_sent, now, local>>

\* A Timer of the node n fires: safe_broadcast_nodes_list().
NetTimerFires(n) ==
    /\ net_timers[n] > 0
    /\ net_timers' = [net_timers EXCEPT ![n] = @ - 1]
    /\ LET b == SafeBroadcastNodesList(n, net_nodes[n], "")
       IN /\ net_stats' = [net_stats EXCEPT ![n] = b.stats]
          /\ net_inbox' = net_inbox \cup b.posts
          /\ net_sent' = net_sent + Cardinality(b.posts)
    /\ UNCHANGED <<net_nodes, net_healthy, net_history, now, local>>

\* A round of health_check at the node n: every node of the network is up and
\* answers 200, and known_peers holds what nodes holds.
NetHealthCheck(n) ==
    /\ net_healthy' = [net_healthy EXCEPT ![n] = @ \cup net_nodes[n]]
    /\ UNCHANGED <<net_nodes, net_timers, net_stats, net_history, net_inbox, net_sent, now,
                   local>>

\* The nodes that requests from outside the network reach, and their bodies.
Registrars == {my_node_address, "p1"}

RegisterBodies == {{"p1"}, {"p2", "p1"}, {my_node_address}}

SwarmRegisterStep ==
    \E n \in Registrars, l \in RegisterBodies : NetRegister(n, l, "h9")

SwarmSyncStep == \E m \in net_inbox : NetSync(m)

SwarmTimerStep == \E n \in Addrs : NetTimerFires(n)

SwarmHealthStep == \E n \in Addrs : NetHealthCheck(n)

SwarmPassStep ==
    /\ now < MaxSwarmClock
    /\ now' = now + 1
    /\ UNCHANGED <<network, local>>

NextSwarm ==
    \/ SwarmRegisterStep
    \/ SwarmSyncStep
    \/ SwarmTimerStep
    \/ SwarmHealthStep
    \/ SwarmPassStep

SpecSwarm == Init /\ [][NextSwarm]_vars

\* Flask handles a request that was posted, and a Timer that was started fires.
SpecSwarmFair == SpecSwarm /\ WF_vars(SwarmSyncStep) /\ WF_vars(SwarmTimerStep)

\* The most /nodes/sync requests a network can post: a node posts once for
\* each growth of its set nodes, to the other nodes at most.
SyncBudget == Cardinality(Addrs) * (Cardinality(Addrs) - 1) * (Cardinality(Addrs) - 1)

\* No request is under way and no Timer is pending.
Quiet == net_inbox = {} /\ \A n \in Addrs : net_timers[n] = 0

\* C39: in a network of the nodes of Addrs the number of /nodes/sync requests
\* posted stays within a budget that the addresses fix, whatever is registered
\* from outside, and the network comes to rest with no request under way and
\* no Timer pending; a node starts a Timer for a rebroadcast only in a step
\* that added a peer to its set nodes, posts only on such an addition or when
\* a Timer fires, and its set nodes never shrinks.
C39_GossipTerminates ==
    /\ [](net_sent <= SyncBudget)
    /\ <>[]Quiet
    /\ [][/\ \A n \in Addrs :
               /\ net_nodes[n] \subseteq net_nodes'[n]
               /\ net_timers'[n] > net_timers[n] => net_nodes'[n] # net_nodes[n]
          /\ net_sent' > net_sent
               => \E n \in Addrs : \/ net_timers'[n] < net_timers[n]
                                   \/ net_nodes'[n] # net_nodes[n]]_vars

\* p1 has handled a sync request of p2, which nothing from outside reaches: a
\* rebroadcast by Timer after a sync that gave p2 a new peer. The network is
\* quiet again.
C39_Witness ==
    /\ Quiet
    /\ \E r \in net_history["p1"] : r.id[3] = "p2"
    /\ net_sent >= 2

====
